---- MODULE Spec2Model ----
(***************************************************************************)
(* Radio Calico: the song rating API (server.js, server-postgres.js) over  *)
(* the songs and ratings relations (src/database/schema.js).               *)
(*                                                                         *)
(* server.js serves every request in one synchronous handler on an         *)
(* embedded SQLite database. server-postgres.js with NODE_ENV=production   *)
(* serves a request as a chain of awaited PostgreSQL statements, so the    *)
(* statements of different requests interleave; without it, it runs the    *)
(* same SQLite code as server.js. isProduction selects the deployment.     *)
(***************************************************************************)
EXTENDS Integers, Sequences, FiniteSets, Bags, TLC

(***************************************************************************)
(* Bounds of the model.                                                    *)
(***************************************************************************)
\* Storage calls that may fail in one run (I/O error, lost connection).
MaxFaults == 1
\* Rating submissions that pass validation in one run of the SQLite server.
MaxSubmits == 3
\* Rating submissions that pass validation in one run of the PostgreSQL
\* server (they overlap in time).
MaxPgSubmits == 2

\* Concurrent request slots (HTTP requests being served at the same time).
Procs == {"p1", "p2"}
\* Path parameter :songHash.
SongHashes == {"h1", "h2"}
\* Non-empty user identifiers.
Users == {"u1", "u2"}

(***************************************************************************)
(* JavaScript values of a JSON request body: a number, a string, or        *)
(* undefined (the property is absent); null is what a SQL NULL reads as.   *)
(***************************************************************************)
Num(n) == [type |-> "number", val |-> n]
Str(s) == [type |-> "string", val |-> s]
Undefined == [type |-> "undefined", val |-> 0]
Null == [type |-> "null", val |-> 0]
NaN == [type |-> "NaN", val |-> 0]
\* A PostgreSQL bigint (the type of SUM) arrives in node-pg as decimal text.
BigintText(digits) == [type |-> "bigint-text", val |-> digits]

\* !x
Falsy(x) ==
    \/ x.type \in {"undefined", "null", "NaN"}
    \/ x.type = "number" /\ x.val = 0
    \/ x.type = "string" /\ x.val = ""

\* x === n for a number literal n
StrictEqNum(x, n) == x.type = "number" /\ x.val = n

\* SQL NULL in a text column (distinct from every text the model binds).
SqlNull == "<NULL>"

\* A bound parameter: undefined binds as NULL.
Bind(x) == IF x.type \in {"undefined", "null"} THEN SqlNull ELSE x.val

(***************************************************************************)
(* Decimal text of a non-negative integer, and parseInt of it.             *)
(***************************************************************************)
Digits == <<"0", "1", "2", "3", "4", "5", "6", "7", "8", "9">>

RECURSIVE ToDecimal(_)
ToDecimal(n) ==
    IF n < 10 THEN <<Digits[n + 1]>>
    ELSE Append(ToDecimal(n \div 10), Digits[(n % 10) + 1])

DigitValue(c) == CHOOSE d \in 0..9 : Digits[d + 1] = c

IsDigit(c) == \E d \in 0..9 : Digits[d + 1] = c

\* parseInt on a digit sequence: the longest prefix of digits, NaN if empty.
RECURSIVE ParseDigits(_, _, _)
ParseDigits(s, i, acc) ==
    IF i > Len(s) \/ ~IsDigit(s[i]) THEN acc
    ELSE ParseDigits(s, i + 1, 10 * acc + DigitValue(s[i]))

\* parseInt(x): x is converted to a string first.
ParseInt(x) ==
    CASE x.type = "bigint-text" ->
            IF Len(x.val) = 0 \/ ~IsDigit(x.val[1]) THEN NaN
            ELSE Num(ParseDigits(x.val, 1, 0))
      [] x.type = "number" ->
            IF x.val >= 0 THEN Num(ParseDigits(ToDecimal(x.val), 1, 0))
            ELSE Num(0 - ParseDigits(ToDecimal(0 - x.val), 1, 0))
      [] OTHER -> NaN

\* x || 0, for x a number, null or NaN
OrZero(x) == IF Falsy(x) THEN 0 ELSE x.val

(***************************************************************************)
(* The relations (src/database/schema.js) and the SQL statements the       *)
(* handlers issue, as operators on sets of rows.                           *)
(*   songs   a set of rows [id, title, artist, album, song_hash]           *)
(*   ratings a bag of rows [song_id, user_id, rating]                      *)
(* The columns no statement reads (created_at, ratings.id) are left out;   *)
(* ratings is a bag so that two rows with one key remain two rows.         *)
(***************************************************************************)
Max(S) == CHOOSE m \in S : \A x \in S : x <= m

\* INTEGER PRIMARY KEY AUTOINCREMENT / SERIAL: an id above every id in use.
\* (PostgreSQL's sequence also skips the ids of failed inserts; ids are only
\* ever compared for equality, so the gaps are not modelled.)
NextId(rows) == IF rows = {} THEN 1 ELSE Max({r.id : r \in rows}) + 1

\* SELECT id FROM songs WHERE song_hash = ?
SongsByHash(ss, h) == {s \in ss : s.song_hash = h}

\* The row of INSERT INTO songs (title, artist, album, song_hash) VALUES (...)
SongRow(id, title, artist, album, h) ==
    [id |-> id, title |-> title, artist |-> artist, album |-> album,
     song_hash |-> h]

\* A songs table whose song_hash is not UNIQUE.
SongInsertError_NoUnique(ss, row) ==
    IF SqlNull \in {row.title, row.artist, row.song_hash} THEN "NOT NULL"
    ELSE "none"

\* The constraint an insert of row into songs violates: NOT NULL, UNIQUE.
SongInsertError(ss, row) ==
    IF SqlNull \in {row.title, row.artist, row.song_hash} THEN "NOT NULL"
    ELSE IF SongsByHash(ss, row.song_hash) # {} THEN "UNIQUE"
    ELSE "none"

\* PostgreSQL schema: title, artist, album and user_id are VARCHAR(255),
\* song_hash is VARCHAR(100); the SQLite columns are TEXT, of any length.
VarcharWidth == 255
SongHashWidth == 100

\* A text does not fit a VARCHAR(n) column (NULL fits).
TooLong(text, n) == text # SqlNull /\ Len(text) > n

\* The constraint an insert of row into the PostgreSQL songs violates.
PgSongInsertError(ss, row) ==
    IF \/ TooLong(row.title, VarcharWidth)
       \/ TooLong(row.artist, VarcharWidth)
       \/ TooLong(row.album, VarcharWidth)
       \/ TooLong(row.song_hash, SongHashWidth) THEN "VARCHAR"
    ELSE SongInsertError(ss, row)

\* The distinct rows of ratings with the key (song_id, user_id).
\* The rows that conflict under a UNIQUE (song_id) constraint.
RatingsByKey_AnyUser(rs, sid, uid) ==
    {r \in BagToSet(rs) : r.song_id = sid}

RatingsByKey(rs, sid, uid) ==
    {r \in BagToSet(rs) : r.song_id = sid /\ r.user_id = uid}

\* The constraint a write of (sid, uid, val) to ratings violates:
\* CHECK (rating IN (-1, 1)), FOREIGN KEY (song_id) REFERENCES songs (id).
RatingWriteError(ss, sid, val) ==
    IF val \notin {-1, 1} THEN "CHECK"
    ELSE IF \A s \in ss : s.id # sid THEN "FOREIGN KEY"
    ELSE "none"

\* The constraint a write of (sid, uid, val) into the PostgreSQL ratings
\* violates.
PgRatingWriteError(ss, sid, uid, val) ==
    IF TooLong(uid, VarcharWidth) THEN "VARCHAR"
    ELSE RatingWriteError(ss, sid, val)

\* A plain INSERT into a ratings table without UNIQUE(song_id, user_id).
RatingUpsert_PlainInsert(rs, sid, uid, val) ==
    [old |-> {}, row |-> [song_id |-> sid, user_id |-> uid, rating |-> val]]

\* The statement with ON CONFLICT (song_id, user_id) DO NOTHING.
RatingUpsert_DoNothing(rs, sid, uid, val) ==
    IF RatingsByKey(rs, sid, uid) = {}
    THEN [old |-> {},
          row |-> [song_id |-> sid, user_id |-> uid, rating |-> val]]
    ELSE [old |-> {CHOOSE r \in RatingsByKey(rs, sid, uid) : TRUE},
          row |-> CHOOSE r \in RatingsByKey(rs, sid, uid) : TRUE]

\* The statement with ON CONFLICT (song_id, user_id) DO UPDATE SET rating =
\* rating + excluded.rating.
RatingUpsert_Add(rs, sid, uid, val) ==
    IF RatingsByKey(rs, sid, uid) = {}
    THEN [old |-> {},
          row |-> [song_id |-> sid, user_id |-> uid, rating |-> val]]
    ELSE LET r == CHOOSE x \in RatingsByKey(rs, sid, uid) : TRUE
         IN  [old |-> {r},
              row |-> [song_id |-> sid, user_id |-> uid,
                       rating |-> r.rating + val]]

\* INSERT INTO ratings (song_id, user_id, rating) VALUES (?, ?, ?)
\*   ON CONFLICT (song_id, user_id) DO UPDATE SET rating = excluded.rating
\* as the write it makes: the rows it replaces (the conflicting row, if
\* any) and the row it leaves.
RatingUpsert(rs, sid, uid, val) ==
    [old |-> IF RatingsByKey(rs, sid, uid) = {} THEN {}
             ELSE {CHOOSE r \in RatingsByKey(rs, sid, uid) : TRUE},
     row |-> [song_id |-> sid, user_id |-> uid, rating |-> val]]

\* A write that keeps the conflicting row (ON CONFLICT DO NOTHING).
ApplyRatingWrite_KeepOld(rs, w) ==
    IF w.old # {} THEN rs ELSE rs (+) SetToBag({w.row})

\* A write that takes the rating back when the value submitted is the one
\* stored.
ApplyRatingWrite_Toggle(rs, w) ==
    IF w.old # {} /\ \A r \in w.old : r.rating = w.row.rating
    THEN rs (-) SetToBag(w.old)
    ELSE (rs (-) SetToBag(w.old)) (+) SetToBag({w.row})

\* The relation after a write.
ApplyRatingWrite(rs, w) == (rs (-) SetToBag(w.old)) (+) SetToBag({w.row})

\* COUNT(*) over the rows of a bag: every row counts, whatever its rating.
SumCase_CountAll(rs, rows, v) ==
    BagCardinality([r \in rows |-> CopiesIn(r, rs)])

\* SUM(CASE WHEN rating = v THEN 1 ELSE 0 END) over the rows of a bag.
RECURSIVE SumCase(_, _, _)
SumCase(rs, rows, v) ==
    IF rows = {} THEN 0
    ELSE LET r == CHOOSE x \in rows : TRUE
         IN  (IF r.rating = v THEN CopiesIn(r, rs) ELSE 0)
             + SumCase(rs, rows \ {r}, v)

\* The SUM of no rows is NULL.
SumCaseOrNull(rs, rows, v) ==
    IF rows = {} THEN Null ELSE Num(SumCase(rs, rows, v))

\* FROM songs s LEFT JOIN ratings r ON s.id = r.song_id WHERE s.song_hash = ?
\* A joined row is [s, r, copies]: r holds the rating row, or nothing for a
\* song without ratings (the NULL-extended row).
LeftJoin(ss, rs, h) ==
    {[s |-> sr[1], r |-> {sr[2]}, copies |-> CopiesIn(sr[2], rs)] : sr \in
        {x \in SongsByHash(ss, h) \X BagToSet(rs) : x[1].id = x[2].song_id}}
    \cup {[s |-> s, r |-> {}, copies |-> 1] : s \in
        {s \in SongsByHash(ss, h) :
            \A r \in BagToSet(rs) : r.song_id # s.id}}

\* COUNT(*) over joined rows: every row counts, whatever its rating.
SumCaseJoined_CountAll(rows, v) == Cardinality(rows)

\* SUM(CASE WHEN r.rating = v THEN 1 ELSE 0 END) over joined rows.
RECURSIVE SumCaseJoined(_, _)
SumCaseJoined(rows, v) ==
    IF rows = {} THEN 0
    ELSE LET j == CHOOSE x \in rows : TRUE
         IN  (IF \E r \in j.r : r.rating = v THEN j.copies ELSE 0)
             + SumCaseJoined(rows \ {j}, v)

\* The aggregate query without its WHERE clause: the joined rows of every
\* song.
RatingsQuery_AllSongs(ss, rs, h) ==
    LET rows == UNION {LeftJoin(ss, rs, g) : g \in SongHashes}
    IN  [thumbs_up |-> IF rows = {} THEN Null ELSE Num(SumCaseJoined(rows, 1)),
         thumbs_down |-> IF rows = {} THEN Null ELSE Num(SumCaseJoined(rows, -1))]

\* GET /api/song/:songHash/ratings: the row of the aggregate query.
RatingsQuery(ss, rs, h) ==
    LET rows == LeftJoin(ss, rs, h)
    IN  [thumbs_up |-> IF rows = {} THEN Null ELSE Num(SumCaseJoined(rows, 1)),
         thumbs_down |-> IF rows = {} THEN Null ELSE Num(SumCaseJoined(rows, -1))]

\* POST .../rate: the row of "Get updated ratings" (FROM ratings WHERE
\* song_id = ?).
UpdatedRatingsQuery(rs, sid) ==
    LET rows == {r \in BagToSet(rs) : r.song_id = sid}
    IN  [thumbs_up |-> SumCaseOrNull(rs, rows, 1),
         thumbs_down |-> SumCaseOrNull(rs, rows, -1)]

\* GET .../user-rating/:userId: SELECT r.rating FROM songs s JOIN ratings r
\* ON s.id = r.song_id WHERE s.song_hash = ? AND r.user_id = ?; the first row.
UserRatingQuery(ss, rs, h, uid) ==
    LET rows == {r \in BagToSet(rs) : r.user_id = uid /\
                    \E s \in SongsByHash(ss, h) : s.id = r.song_id}
    IN  IF rows = {} THEN Null ELSE Num((CHOOSE r \in rows : TRUE).rating)

\* node-pg returns the bigint of SUM as decimal text; better-sqlite3 returns
\* a number.
PgColumn(x) == IF x.type = "number" THEN BigintText(ToDecimal(x.val)) ELSE x

(***************************************************************************)
(* Requests and responses.                                                 *)
(***************************************************************************)
\* req.body of POST /api/song/:songHash/rate
Body(rating, userId, title, artist, album) ==
    [rating |-> rating, userId |-> userId, title |-> title,
     artist |-> artist, album |-> album]

\* Bodies that pass validation: both ratings, each user, a track with an
\* album and one without.
ValidBodies ==
    {Body(Num(r), Str(u), t[1], t[2], t[3]) :
        r \in {1, -1}, u \in Users,
        t \in {<<Str("T"), Str("A"), Str("B")>>,
               <<Str("T2"), Str("A"), Undefined>>}}

\* Bodies with one field of a valid body broken, and the body of the test
\* 'should require all mandatory fields'.
BaseBody == Body(Num(1), Str("u1"), Str("T"), Str("A"), Str("B"))
InvalidBodies ==
    {[BaseBody EXCEPT !.rating = x] : x \in {Num(0), Num(2), Undefined}}
    \cup {[BaseBody EXCEPT !.userId = x] : x \in {Str(""), Undefined}}
    \cup {[BaseBody EXCEPT !.title = x] : x \in {Str(""), Undefined}}
    \cup {[BaseBody EXCEPT !.artist = x] : x \in {Str(""), Undefined}}
    \cup {Body(Num(1), Str("u1"), Undefined, Undefined, Undefined),
          Body(Num(0), Str("u1"), Undefined, Str("A"), Str("B"))}

Bodies == ValidBodies \cup InvalidBodies

\* A text of n copies of s.
RECURSIVE Repeat(_, _)
Repeat(s, n) ==
    IF n = 0 THEN ""
    ELSE IF n % 2 = 0
    THEN LET half == Repeat(s, n \div 2) IN half \o half
    ELSE s \o Repeat(s, n - 1)

\* A valid body whose title is one character longer than VARCHAR(255).
LongTitle == Repeat("T", VarcharWidth + 1)
LongTitleBody == Body(Num(1), Str("u1"), Str(LongTitle), Str("A"), Undefined)

\* The client sends the songHash of the track it rates: in the concurrent
\* runs each songHash comes with one track (h1 with an album, h2 without).
TrackBodies(h) ==
    {b \in ValidBodies :
        b.title = (IF h = "h1" THEN Str("T") ELSE Str("T2"))}

\* The bodies of the side-by-side run for songHash h: those of its track,
\* one with a long title, and three that fail validation.
SeqBodies(h) ==
    TrackBodies(h) \cup {LongTitleBody}
    \cup {[BaseBody EXCEPT !.rating = Num(0)],
          [BaseBody EXCEPT !.rating = Num(2)],
          [BaseBody EXCEPT !.title = Undefined]}

MissingFields == "Missing required fields"
InvalidRating == "Rating must be 1 (thumbs up) or -1 (thumbs down)"

\* A validation that does not look at title.
Validate_NoTitleCheck(body) ==
    IF Falsy(body.rating) \/ Falsy(body.userId) \/ Falsy(body.artist)
    THEN MissingFields
    ELSE IF ~StrictEqNum(body.rating, 1) /\ ~StrictEqNum(body.rating, -1)
    THEN InvalidRating
    ELSE "ok"

\* The validation of POST .../rate: the error of the 400 response, or "ok".
Validate(body) ==
    IF Falsy(body.rating) \/ Falsy(body.userId) \/ Falsy(body.title)
       \/ Falsy(body.artist)
    THEN MissingFields
    ELSE IF ~StrictEqNum(body.rating, 1) /\ ~StrictEqNum(body.rating, -1)
    THEN InvalidRating
    ELSE "ok"

NoReq == [songHash |-> ""]
NoResp == [op |-> "none", status |-> 0]

\* A response to POST .../rate, with the request it answers.
RateResp(h, body, res) ==
    [op |-> "rate", songHash |-> h, body |-> body, status |-> res.status,
     res |-> res]

BadRequest(msg) == [status |-> 400, error |-> msg]
\* res.status(500).json({ error: error.message })
ServerError == [status |-> 500, error |-> "error.message"]

\* server.js: thumbs_up: updatedRatings.thumbs_up || 0
RateOkSqlite(row) ==
    [status |-> 200, message |-> "Rating submitted successfully",
     thumbs_up |-> OrZero(row.thumbs_up),
     thumbs_down |-> OrZero(row.thumbs_down)]

\* server-postgres.js: thumbs_up: parseInt(updatedRatings?.thumbs_up) || 0
RateOkPg(row) ==
    [status |-> 200, message |-> "Rating submitted successfully",
     thumbs_up |-> OrZero(ParseInt(row.thumbs_up)),
     thumbs_down |-> OrZero(ParseInt(row.thumbs_down))]

(***************************************************************************)
(* State.                                                                  *)
(***************************************************************************)
VARIABLES
    isProduction,  \* NODE_ENV === 'production': PostgreSQL, else SQLite
    songs,         \* the committed rows of songs
    ratings,       \* the committed rows of ratings
    pc,            \* per request slot: the await its handler is at
    req,           \* per slot: the rate request being served
    songId,        \* per slot: the handler's local songId
    txSongs,       \* per slot: song rows its open transaction inserted
    txRatings,     \* per slot: rating writes of its open transaction
    sent,          \* the response the last step sent, with its request
    faults,        \* storage calls that have failed so far
    submits,       \* submissions that have passed validation so far
    pgSongs,       \* side-by-side run: committed songs of a PostgreSQL server
    pgRatings,     \* side-by-side run: its committed ratings
    pgSent,        \* side-by-side run: its response to the last request
    latest,        \* history: per songHash and user, the value last submitted
    dbType,        \* start-up: the backend kind ('sqlite' or 'postgres')
    tables,        \* start-up: per table, its definition in the store
    stmt,          \* start-up: per CREATE TABLE statement, how far it is
    proc,          \* start-up: the server process (load, listening, exited)
    served,        \* start-up: rate requests the process ran on the store
    rd,            \* per reader slot: the GET request being served
    call,          \* hashing: the function called and its argument
    util,          \* hashing: what src/utils/hash.js did on that call
    client,        \* hashing: what RadioPlayer (radio.js) did on that call
    currentTrack,  \* widget: this.currentTrack of the RadioPlayer
    userId,        \* widget: this.userId
    inflight,      \* widget: the POST .../rate requests awaiting a response
    thumbsUpCount, \* widget: textContent of #thumbsUpCount
    thumbsDownCount, \* widget: textContent of #thumbsDownCount
    active,        \* widget: the rating whose button is active (0: none)
    clicks,        \* widget: the clicks on the rating buttons
    listeners,     \* widget: the click listeners of each rating button
    setups,        \* widget: the timeouts of updateNowPlaying pending
    refreshes,     \* widget: the metadata documents delivered
    answers,       \* widget: the responses to rate requests on their way
    loading,       \* widget: the loadRatings calls awaiting a fetch
    completed,     \* widget: how the last rateSong to end ended
    held,          \* per slot: pool clients its handler holds
    isPlaying,     \* this.isPlaying
    startTime,     \* this.startTime (0: null)
    elapsedTimer,  \* this.elapsedTimer (0: null)
    timers,        \* the live intervals of setInterval, by id
    timerSeq,      \* the intervals setInterval has made
    timeDisplay,   \* timeDisplay.textContent
    statusText,    \* status.textContent
    awaiting,      \* togglePlay calls awaiting audio.play()
    toggles,       \* the calls of togglePlay
    now,           \* Date.now(), in seconds
    ended,         \* how the last togglePlay to end ended
    lsUserId,      \* localStorage radioCalico_userId
    lsFingerprint, \* localStorage radioCalico_fingerprint
    ssBackup,      \* sessionStorage radioCalico_userId_backup
    env,           \* what generateFingerprint serialises
    gotUserId,     \* what the last getUserId returned
    written,       \* the storage keys it wrote
    loads          \* the page loads (calls of getUserId)

\* The variables of the side-by-side run, in which server.js and a
\* PostgreSQL deployment of server-postgres.js are given the same requests
\* one at a time.
seqVars == <<pgSongs, pgRatings, pgSent, latest>>

\* The variables of process start-up (schema initialisation, listen).
bootVars == <<dbType, tables, stmt, proc, served>>

\* The variable of the GET handlers of the PostgreSQL server.
poolVars == <<rd>>

\* The variables of one call of a hash function, made on the shared
\* utility and on the client.
hashVars == <<call, util, client>>

\* The variables of the rating widget of the page (RadioPlayer).
widgetVars == <<currentTrack, userId, inflight, thumbsUpCount,
                thumbsDownCount, active, clicks, listeners, setups,
                refreshes, answers, loading, completed>>

\* The variable of the pool clients the rate handlers of the PostgreSQL
\* server check out.
leaseVars == <<held>>

\* The variables of the play button of the page (RadioPlayer.togglePlay and
\* the elapsed-time timer).
playerVars == <<isPlaying, startTime, elapsedTimer, timers, timerSeq,
                timeDisplay, statusText, awaiting, toggles, now, ended>>

\* The variables of the client identifier (RadioPlayer.getUserId): the
\* storage of the browser, the environment the fingerprint is taken from, and
\* the last call.
idVars == <<lsUserId, lsFingerprint, ssBackup, env, gotUserId, written, loads>>

\* The variables apart from the relations and the rate handlers' locals.
auxVars == <<bootVars, poolVars, hashVars, widgetVars, leaseVars, playerVars,
             idVars>>

\* What start-up never touches among them.
offBoot == <<poolVars, hashVars, widgetVars, leaseVars, playerVars, idVars>>

\* What the GET handlers of the PostgreSQL server never touch among them.
offPool == <<bootVars, hashVars, widgetVars, leaseVars, playerVars, idVars>>

\* What a call of a hash function never touches among them.
offHash == <<bootVars, poolVars, widgetVars, leaseVars, playerVars, idVars>>

\* What the widget never touches among them.
offWidget == <<bootVars, poolVars, hashVars, leaseVars, playerVars, idVars>>

\* What checking out and releasing a client never touches among them.
offLease == <<bootVars, poolVars, hashVars, widgetVars, playerVars, idVars>>

\* What the play button never touches among them.
offPlayer == <<bootVars, poolVars, hashVars, widgetVars, leaseVars, idVars>>

\* What getUserId and the browser storage never touch among them.
offId == <<bootVars, poolVars, hashVars, widgetVars, leaseVars, playerVars>>

vars == <<isProduction, songs, ratings, pc, req, songId, txSongs, txRatings,
          sent, faults, submits, pgSongs, pgRatings, pgSent, latest, dbType,
          tables, stmt, proc, served, rd, call, util, client, currentTrack,
          userId, inflight, thumbsUpCount, thumbsDownCount, active, clicks,
          listeners, setups, refreshes, answers, loading, completed, held,
          isPlaying, startTime, elapsedTimer, timers, timerSeq, timeDisplay,
          statusText, awaiting, toggles, now, ended, lsUserId, lsFingerprint,
          ssBackup, env, gotUserId, written, loads>>

\* The tables of SCHEMAS[dbType], in the order of their keys.
TableNames == <<"users", "songs", "ratings">>
TableSet == {TableNames[i] : i \in 1..Len(TableNames)}

\* A table that does not exist.
Absent == [table |-> "none"]

\* The definition CREATE TABLE of SCHEMAS[kind][t] gives table t: the type
\* of its text columns and its constraints.
TableDef(kind, t) ==
    [table |-> t,
     text |-> IF kind = "sqlite" THEN "TEXT" ELSE "VARCHAR",
     constraints |->
        CASE t = "users" -> {"PRIMARY KEY (id)", "UNIQUE (email)"}
          [] t = "songs" -> {"PRIMARY KEY (id)", "UNIQUE (song_hash)"}
          [] t = "ratings" ->
                {"PRIMARY KEY (id)", "CHECK (rating IN (-1, 1))",
                 "FOREIGN KEY (song_id) REFERENCES songs (id)",
                 "UNIQUE (song_id, user_id)"}]

\* The process of a server that has started: schema initialised, listening.
InitBooted(kind) ==
    /\ dbType = kind
    /\ tables = [t \in TableSet |-> TableDef(kind, t)]
    /\ stmt = [t \in TableSet |-> "done"]
    /\ proc = "listening"
    /\ served = 0

\* Concurrent GET request slots.
Readers == {"r1"}
\* The slot serves no request.
NoGet == [state |-> "idle"]

InitPoolVars == rd = [r \in Readers |-> NoGet]

\* No hash function has been called.
NoCall == [fn |-> "none"]
\* A function that has not run.
NotCalled == [kind |-> "none", val |-> <<>>]

InitHashVars ==
    /\ call = NoCall
    /\ util = NotCalled
    /\ client = NotCalled

\* The page as constructed: no metadata fetched, getUserId pending, no
\* rating shown.
InitWidgetVars ==
    /\ currentTrack = Undefined
    /\ userId = Undefined
    /\ inflight = {}
    /\ thumbsUpCount = "0"
    /\ thumbsDownCount = "0"
    /\ active = 0
    /\ clicks = 0
    /\ listeners = 0
    /\ setups = 0
    /\ refreshes = 0
    /\ answers = {}
    /\ loading = {}
    /\ completed = [kind |-> "none"]

\* No handler holds a client.
InitLeaseVars ==
    /\ held = [p \in Procs |-> 0]

\* The player as constructed: not playing, no timer, no elapsed time and an
\* empty status line.
InitPlayerVars ==
    /\ isPlaying = FALSE
    /\ startTime = 0
    /\ elapsedTimer = 0
    /\ timers = {}
    /\ timerSeq = 0
    /\ timeDisplay = "00:00:00"
    /\ statusText = ""
    /\ awaiting = 0
    /\ toggles = 0
    /\ now = 1
    /\ ended = "none"

\* A browser that never loaded the page: empty storage, getUserId not called.
InitIdVars ==
    /\ lsUserId = Null
    /\ lsFingerprint = Null
    /\ ssBackup = Null
    /\ env = [type |-> "string", val |-> <<"a">>]
    /\ gotUserId = Undefined
    /\ written = {}
    /\ loads = 0

InitAuxVars ==
    /\ InitBooted(IF isProduction THEN "postgres" ELSE "sqlite")
    /\ InitPoolVars
    /\ InitHashVars
    /\ InitWidgetVars
    /\ InitIdVars
    /\ InitPlayerVars
    /\ InitLeaseVars

\* Nobody has submitted anything (0 stands for no submission).
NoLatest == [h \in SongHashes |-> [u \in Users |-> 0]]

\* The side-by-side run has not started.
InitSeqVars ==
    /\ pgSongs = {}
    /\ pgRatings = EmptyBag
    /\ pgSent = NoResp
    /\ latest = NoLatest

Init ==
    /\ isProduction \in BOOLEAN
    /\ songs = {}
    /\ ratings = EmptyBag
    /\ pc = [p \in Procs |-> "idle"]
    /\ req = [p \in Procs |-> NoReq]
    /\ songId = [p \in Procs |-> 0]
    /\ txSongs = [p \in Procs |-> {}]
    /\ txRatings = [p \in Procs |-> {}]
    /\ sent = NoResp
    /\ faults = 0
    /\ submits = 0
    /\ InitSeqVars
    /\ InitAuxVars

(***************************************************************************)
(* POST /api/song/:songHash/rate, validation (both servers).               *)
(***************************************************************************)
Reject(h, body) ==
    /\ Validate(body) # "ok"
    /\ sent' = RateResp(h, body, BadRequest(Validate(body)))
    /\ UNCHANGED <<auxVars, seqVars, isProduction,
                   songs, ratings, pc, req, songId, txSongs,
                   txRatings, faults, submits>>

(***************************************************************************)
(* POST /api/song/:songHash/rate on SQLite: the handler runs to its        *)
(* response without yielding. db.transaction commits when its function     *)
(* returns and rolls back when it throws.                                  *)
(***************************************************************************)
\* The storage call of the handler that fails with a storage error: none, a
\* statement inside the transaction function, or "Get updated ratings".
SqliteFaults == {"none", "insertSong", "insertRating", "ratingsQuery"}

\* The transaction function: [ok, songs, ratings, songId].
SqliteTransaction(ss, rs, h, body, fault) ==
    LET row == SongRow(NextId(ss), Bind(body.title), Bind(body.artist),
                       Bind(body.album), h)
        err == IF fault = "insertSong" THEN "IOERR"
               ELSE SongInsertError(ss, row)
        thrown == [ok |-> FALSE, songs |-> ss, ratings |-> rs, songId |-> 0]
    IN  IF err \notin {"none", "UNIQUE"} THEN thrown
        ELSE IF err = "UNIQUE" /\ SongsByHash(ss, h) = {}
        THEN thrown
        ELSE
          LET ss1 == IF err = "none" THEN ss \cup {row} ELSE ss
              sid == IF err = "none" THEN row.id
                     ELSE (CHOOSE s \in SongsByHash(ss, h) : TRUE).id
              val == body.rating.val
              uid == Bind(body.userId)
          IN  IF fault = "insertRating"
                 \/ RatingWriteError(ss1, sid, val) # "none"
              THEN thrown
              ELSE [ok |-> TRUE, songs |-> ss1,
                    ratings |-> ApplyRatingWrite(rs,
                        RatingUpsert(rs, sid, uid, val)),
                    songId |-> sid]

RateSqlite(h, body, fault) ==
    /\ ~isProduction
    /\ Validate(body) = "ok"
    /\ submits < MaxSubmits
    /\ fault # "none" => faults < MaxFaults
    /\ LET t == SqliteTransaction(songs, ratings, h, body, fault)
       IN  /\ songs' = t.songs
           /\ ratings' = t.ratings
           /\ sent' = RateResp(h, body,
                IF t.ok /\ fault # "ratingsQuery"
                THEN RateOkSqlite(UpdatedRatingsQuery(t.ratings, t.songId))
                ELSE ServerError)
    /\ faults' = IF fault = "none" THEN faults ELSE faults + 1
    /\ submits' = submits + 1
    /\ UNCHANGED <<auxVars, seqVars, isProduction,
                   pc, req, songId, txSongs, txRatings>>

(***************************************************************************)
(* POST /api/song/:songHash/rate on PostgreSQL: one action per await.      *)
(* A statement of a transaction reads the committed rows and the           *)
(* transaction's own writes (READ COMMITTED), and waits while another open *)
(* transaction holds an uncommitted write of the key it touches.           *)
(***************************************************************************)
\* What a statement of slot p's transaction reads.
VisibleSongs(p) == songs \cup txSongs[p]
VisibleRatings(p) ==
    IF txRatings[p] = {} THEN ratings
    ELSE ApplyRatingWrite(ratings, CHOOSE w \in txRatings[p] : TRUE)

\* Song rows of every open transaction (their ids are taken).
AllTxSongs == UNION {txSongs[q] : q \in Procs}

\* A songs table whose INSERT never waits for another transaction's
\* uncommitted row (no unique index on song_hash).
SongLockedByOther_Never(p, h) == FALSE

\* Another open transaction inserted a song with this song_hash.
SongLockedByOther(p, h) ==
    \E q \in Procs \ {p} : \E s \in txSongs[q] : s.song_hash = h

\* Another open transaction wrote the rating of this (song_id, user_id).
RatingLockedByOther(p, sid, uid) ==
    \E q \in Procs \ {p} : \E w \in txRatings[q] :
        w.row.song_id = sid /\ w.row.user_id = uid

\* A COMMIT that loses the rating write.
CommitRatings_Lost(rs, writes) == rs

\* A COMMIT that loses the song rows of the transaction.
CommitSongs_Lost(ss, inserted) == ss

\* The relations after COMMIT of the given writes.
CommitSongs(ss, inserted) == ss \cup inserted
CommitRatings(rs, writes) ==
    IF writes = {} THEN rs
    ELSE ApplyRatingWrite(rs, CHOOSE w \in writes : TRUE)

\* client.release(): the handler gives its client back to the pool.
Release(p) == held' = [held EXCEPT ![p] = held[p] - 1]

\* The slot's handler is over: its locals are gone.
Finish(p) ==
    /\ pc' = [pc EXCEPT ![p] = "idle"]
    /\ req' = [req EXCEPT ![p] = NoReq]
    /\ songId' = [songId EXCEPT ![p] = 0]

\* Validation passed: the handler calls pool.connect() and awaits a client.
Accept(p, h, body) ==
    /\ isProduction
    /\ pc[p] = "idle"
    /\ body \in TrackBodies(h)
    /\ Validate(body) = "ok"
    /\ submits < MaxPgSubmits
    /\ pc' = [pc EXCEPT ![p] = "connect"]
    /\ req' = [req EXCEPT ![p] = [songHash |-> h, body |-> body]]
    /\ submits' = submits + 1
    /\ sent' = NoResp
    /\ UNCHANGED <<auxVars, seqVars, isProduction,
                   songs, ratings, songId, txSongs, txRatings,
                   faults>>

\* const client = await pool.connect()
Connect(p) ==
    /\ pc[p] = "connect"
    /\ pc' = [pc EXCEPT ![p] = "begin"]
    /\ held' = [held EXCEPT ![p] = held[p] + 1]
    /\ sent' = NoResp
    /\ UNCHANGED <<offLease, seqVars, isProduction,
                   songs, ratings, req, songId, txSongs,
                   txRatings, faults, submits>>

\* pool.connect() rejects: the outer catch answers 500.
ConnectFail(p) ==
    /\ pc[p] = "connect"
    /\ faults < MaxFaults
    /\ faults' = faults + 1
    /\ sent' = RateResp(req[p].songHash, req[p].body, ServerError)
    /\ Finish(p)
    /\ UNCHANGED <<auxVars, seqVars, isProduction,
                   songs, ratings, txSongs, txRatings,
                   submits>>

\* await client.query('BEGIN')
Begin(p) ==
    /\ pc[p] = "begin"
    /\ pc' = [pc EXCEPT ![p] = "insertSong"]
    /\ sent' = NoResp
    /\ UNCHANGED <<auxVars, seqVars, isProduction,
                   songs, ratings, req, songId, txSongs,
                   txRatings, faults, submits>>

\* INSERT INTO songs ... ON CONFLICT (song_hash) DO NOTHING RETURNING id;
\* no row returned sends the handler to the SELECT.
InsertSong(p) ==
    /\ pc[p] = "insertSong"
    /\ ~SongLockedByOther(p, req[p].songHash)
    /\ LET b == req[p].body
           row == SongRow(NextId(songs \cup AllTxSongs), Bind(b.title),
                          Bind(b.artist), Bind(b.album), req[p].songHash)
           err == PgSongInsertError(VisibleSongs(p), row)
       IN  IF err = "none"
           THEN /\ txSongs' = [txSongs EXCEPT ![p] = {row}]
                /\ songId' = [songId EXCEPT ![p] = row.id]
                /\ pc' = [pc EXCEPT ![p] = "insertRating"]
           ELSE IF err = "UNIQUE"
           THEN /\ pc' = [pc EXCEPT ![p] = "selectSong"]
                /\ UNCHANGED <<txSongs, songId>>
           ELSE /\ pc' = [pc EXCEPT ![p] = "rollback"]
                /\ UNCHANGED <<txSongs, songId>>
    /\ sent' = NoResp
    /\ UNCHANGED <<auxVars, seqVars, isProduction,
                   songs, ratings, req, txRatings, faults,
                   submits>>

\* SELECT id FROM songs WHERE song_hash = $1; songId = rows[0].id (a
\* TypeError, caught, when there is no row).
SelectSong(p) ==
    /\ pc[p] = "selectSong"
    /\ LET rows == SongsByHash(VisibleSongs(p), req[p].songHash)
       IN  IF rows = {}
           THEN /\ pc' = [pc EXCEPT ![p] = "rollback"]
                /\ UNCHANGED songId
           ELSE /\ songId' = [songId EXCEPT ![p] =
                        (CHOOSE s \in rows : TRUE).id]
                /\ pc' = [pc EXCEPT ![p] = "insertRating"]
    /\ sent' = NoResp
    /\ UNCHANGED <<auxVars, seqVars, isProduction,
                   songs, ratings, req, txSongs, txRatings,
                   faults, submits>>

\* INSERT INTO ratings ... ON CONFLICT (song_id, user_id) DO UPDATE ...
InsertRating(p) ==
    /\ pc[p] = "insertRating"
    /\ LET b == req[p].body
           uid == Bind(b.userId)
       IN  /\ ~RatingLockedByOther(p, songId[p], uid)
           /\ IF PgRatingWriteError(VisibleSongs(p), songId[p], uid,
                                     b.rating.val) # "none"
              THEN /\ pc' = [pc EXCEPT ![p] = "rollback"]
                   /\ UNCHANGED txRatings
              ELSE /\ txRatings' = [txRatings EXCEPT ![p] =
                        {RatingUpsert(VisibleRatings(p), songId[p], uid,
                             b.rating.val)}]
                   /\ pc' = [pc EXCEPT ![p] = "commit"]
    /\ sent' = NoResp
    /\ UNCHANGED <<auxVars, seqVars, isProduction,
                   songs, ratings, req, songId, txSongs, faults,
                   submits>>

\* await client.query('COMMIT'); finally client.release(); then the handler
\* issues "Get updated ratings" through the pool.
Commit(p) ==
    /\ pc[p] = "commit"
    /\ songs' = CommitSongs(songs, txSongs[p])
    /\ ratings' = CommitRatings(ratings, txRatings[p])
    /\ txSongs' = [txSongs EXCEPT ![p] = {}]
    /\ txRatings' = [txRatings EXCEPT ![p] = {}]
    /\ pc' = [pc EXCEPT ![p] = "updatedRatings"]
    /\ Release(p)
    /\ sent' = NoResp
    /\ UNCHANGED <<offLease, seqVars, isProduction,
                   req, songId, faults, submits>>

\* A statement of the transaction (BEGIN ... COMMIT) rejects: the catch
\* block runs.
StatementFail(p) ==
    /\ pc[p] \in {"begin", "insertSong", "selectSong", "insertRating",
                  "commit"}
    /\ faults < MaxFaults
    /\ faults' = faults + 1
    /\ pc' = [pc EXCEPT ![p] = "rollback"]
    /\ sent' = NoResp
    /\ UNCHANGED <<auxVars, seqVars, isProduction,
                   songs, ratings, req, songId, txSongs,
                   txRatings, submits>>

\* A catch block that swallows the error: the transaction is rolled back
\* but the handler never answers.
Rollback_NoAnswer(p) ==
    /\ pc[p] = "rollback"
    /\ txSongs' = [txSongs EXCEPT ![p] = {}]
    /\ txRatings' = [txRatings EXCEPT ![p] = {}]
    /\ sent' = NoResp
    /\ pc' = [pc EXCEPT ![p] = "unanswered"]
    /\ Release(p)
    /\ UNCHANGED <<offLease, seqVars, isProduction,
                   songs, ratings, req, songId, faults, submits>>

\* A handler without the finally block: the client is released after
\* COMMIT only.
Rollback_NoRelease(p) ==
    /\ pc[p] = "rollback"
    /\ txSongs' = [txSongs EXCEPT ![p] = {}]
    /\ txRatings' = [txRatings EXCEPT ![p] = {}]
    /\ sent' = RateResp(req[p].songHash, req[p].body, ServerError)
    /\ Finish(p)
    /\ UNCHANGED <<auxVars, seqVars, isProduction,
                   songs, ratings, faults, submits>>

\* catch: await client.query('ROLLBACK'); throw error; finally
\* client.release(); the outer catch answers 500.
Rollback(p) ==
    /\ pc[p] = "rollback"
    /\ txSongs' = [txSongs EXCEPT ![p] = {}]
    /\ txRatings' = [txRatings EXCEPT ![p] = {}]
    /\ Release(p)
    /\ sent' = RateResp(req[p].songHash, req[p].body, ServerError)
    /\ Finish(p)
    /\ UNCHANGED <<offLease, seqVars, isProduction,
                   songs, ratings, faults, submits>>

\* catch: client.query('ROLLBACK') rejects as well (the connection that
\* failed the statement is gone, and the server drops its transaction):
\* throw error is skipped, finally client.release() runs, the outer catch
\* answers 500.
RollbackFail(p) ==
    /\ pc[p] = "rollback"
    /\ faults > 0
    /\ txSongs' = [txSongs EXCEPT ![p] = {}]
    /\ txRatings' = [txRatings EXCEPT ![p] = {}]
    /\ Release(p)
    /\ sent' = RateResp(req[p].songHash, req[p].body, ServerError)
    /\ Finish(p)
    /\ UNCHANGED <<offLease, seqVars, isProduction,
                   songs, ratings, faults, submits>>

\* const updatedRatings = await get(ratingsQuery, [songId]); res.json(...)
UpdatedRatings(p) ==
    /\ pc[p] = "updatedRatings"
    /\ LET row == UpdatedRatingsQuery(ratings, songId[p])
       IN  sent' = RateResp(req[p].songHash, req[p].body,
                RateOkPg([thumbs_up |-> PgColumn(row.thumbs_up),
                          thumbs_down |-> PgColumn(row.thumbs_down)]))
    /\ Finish(p)
    /\ UNCHANGED <<auxVars, seqVars, isProduction,
                   songs, ratings, txSongs, txRatings, faults,
                   submits>>

\* "Get updated ratings" rejects: the outer catch answers 500.
UpdatedRatingsFail(p) ==
    /\ pc[p] = "updatedRatings"
    /\ faults < MaxFaults
    /\ faults' = faults + 1
    /\ sent' = RateResp(req[p].songHash, req[p].body, ServerError)
    /\ Finish(p)
    /\ UNCHANGED <<auxVars, seqVars, isProduction,
                   songs, ratings, txSongs, txRatings,
                   submits>>

(***************************************************************************)
(* The GET handlers: one query on the committed rows.                      *)
(***************************************************************************)
\* :userId of a GET: a user who rates, or one who never does.
ReaderIds == Users \cup {"u0"}

\* The thumbs_up / thumbs_down of the response, from a column of the row.
CountFieldOf(prod, x) ==
    IF prod THEN OrZero(ParseInt(PgColumn(x))) ELSE OrZero(x)

CountField(x) == CountFieldOf(isProduction, x)

\* The body of the 200 response of GET /api/song/:songHash/ratings.
RatingsBodyOf(prod, ss, rs, h) ==
    LET row == RatingsQuery(ss, rs, h)
    IN  [thumbs_up |-> CountFieldOf(prod, row.thumbs_up),
         thumbs_down |-> CountFieldOf(prod, row.thumbs_down)]

GetRatingsBody(h) == RatingsBodyOf(isProduction, songs, ratings, h)

\* GET /api/song/:songHash/ratings
GetRatings(h, fail) ==
    /\ fail => faults < MaxFaults
    /\ faults' = IF fail THEN faults + 1 ELSE faults
    /\ sent' =
         IF fail THEN [op |-> "ratings", songHash |-> h, status |-> 500]
         ELSE [op |-> "ratings", songHash |-> h, status |-> 200,
               thumbs_up |-> GetRatingsBody(h).thumbs_up,
               thumbs_down |-> GetRatingsBody(h).thumbs_down]
    /\ UNCHANGED <<auxVars, seqVars, isProduction,
                   songs, ratings, pc, req, songId, txSongs,
                   txRatings, submits>>

\* The body of the 200 response of GET .../user-rating/:userId:
\* { rating: result ? result.rating : null }
UserRatingBodyOf(ss, rs, h, uid) ==
    [rating |-> UserRatingQuery(ss, rs, h, uid)]

GetUserRatingBody(h, uid) == UserRatingBodyOf(songs, ratings, h, uid)

\* GET /api/song/:songHash/user-rating/:userId
GetUserRating(h, uid, fail) ==
    /\ fail => faults < MaxFaults
    /\ faults' = IF fail THEN faults + 1 ELSE faults
    /\ sent' =
         IF fail
         THEN [op |-> "user-rating", songHash |-> h, userId |-> uid,
               status |-> 500]
         ELSE [op |-> "user-rating", songHash |-> h, userId |-> uid,
               status |-> 200, rating |-> GetUserRatingBody(h, uid).rating]
    /\ UNCHANGED <<auxVars, seqVars, isProduction,
                   songs, ratings, pc, req, songId, txSongs,
                   txRatings, submits>>

(***************************************************************************)
(* The two deployments.                                                    *)
(***************************************************************************)
\* server.js, and server-postgres.js outside production: SQLite.
InitSqlite == Init /\ ~isProduction

NextSqlite ==
    \/ \E body \in Bodies : Reject("h1", body)
    \/ \E h \in SongHashes, body \in Bodies, fault \in SqliteFaults :
          RateSqlite(h, body, fault)
    \/ \E h \in SongHashes, fail \in BOOLEAN : GetRatings(h, fail)
    \/ \E h \in SongHashes, uid \in ReaderIds, fail \in BOOLEAN :
          GetUserRating(h, uid, fail)

SpecSqlite == InitSqlite /\ [][NextSqlite]_vars

\* server-postgres.js in production: PostgreSQL, concurrent submissions.
\* The database outlives the server process: a run starts on an empty
\* database or on rows an earlier run committed (a song rated by u1).
PersistedSongs == {SongRow(1, "T0", "A0", SqlNull, "h1")}
PersistedRatings ==
    SetToBag({[song_id |-> 1, user_id |-> "u1", rating |-> 1]})

InitPg ==
    /\ isProduction = TRUE
    /\ \/ songs = {} /\ ratings = EmptyBag
       \/ songs = PersistedSongs /\ ratings = PersistedRatings
    /\ pc = [p \in Procs |-> "idle"]
    /\ req = [p \in Procs |-> NoReq]
    /\ songId = [p \in Procs |-> 0]
    /\ txSongs = [p \in Procs |-> {}]
    /\ txRatings = [p \in Procs |-> {}]
    /\ sent = NoResp
    /\ faults = 0
    /\ submits = 0
    /\ InitSeqVars
    /\ InitAuxVars

NextPg ==
    \/ \E p \in Procs, h \in SongHashes, body \in Bodies :
          Accept(p, h, body)
    \/ \E p \in Procs : Connect(p)
    \/ \E p \in Procs : ConnectFail(p)
    \/ \E p \in Procs : Begin(p)
    \/ \E p \in Procs : InsertSong(p)
    \/ \E p \in Procs : SelectSong(p)
    \/ \E p \in Procs : InsertRating(p)
    \/ \E p \in Procs : Commit(p)
    \/ \E p \in Procs : StatementFail(p)
    \/ \E p \in Procs : Rollback(p)
    \/ \E p \in Procs : RollbackFail(p)
    \/ \E p \in Procs : UpdatedRatings(p)
    \/ \E p \in Procs : UpdatedRatingsFail(p)

SpecPg == InitPg /\ [][NextPg]_vars

(***************************************************************************)
(* The side-by-side run: each request is served by server.js on its SQLite *)
(* database and by server-postgres.js in production on its PostgreSQL      *)
(* database, one request at a time, with no storage failure.               *)
(***************************************************************************)
MaxSeqSubmits == 4

\* The PostgreSQL transaction of POST .../rate run without interleaving:
\* BEGIN, insert or fetch the song, upsert the rating, COMMIT; ROLLBACK when
\* a statement throws. [ok, songs, ratings, songId].
PgTransaction(ss, rs, h, body) ==
    LET row == SongRow(NextId(ss), Bind(body.title), Bind(body.artist),
                       Bind(body.album), h)
        err == PgSongInsertError(ss, row)
        thrown == [ok |-> FALSE, songs |-> ss, ratings |-> rs, songId |-> 0]
    IN  IF err \notin {"none", "UNIQUE"} THEN thrown
        ELSE IF err = "UNIQUE" /\ SongsByHash(ss, h) = {}
        THEN thrown
        ELSE
          LET inserted == IF err = "none" THEN {row} ELSE {}
              sid == IF err = "none" THEN row.id
                     ELSE (CHOOSE s \in SongsByHash(ss, h) : TRUE).id
              val == body.rating.val
              uid == Bind(body.userId)
          IN  IF PgRatingWriteError(ss \cup inserted, sid, uid, val) # "none"
              THEN thrown
              ELSE [ok |-> TRUE, songs |-> CommitSongs(ss, inserted),
                    ratings |-> CommitRatings(rs,
                        {RatingUpsert(rs, sid, uid, val)}),
                    songId |-> sid]

\* The response of the PostgreSQL server to a rate request that passed
\* validation, given the outcome of its transaction.
PgRateResult(t) ==
    IF t.ok
    THEN LET row == UpdatedRatingsQuery(t.ratings, t.songId)
         IN  RateOkPg([thumbs_up |-> PgColumn(row.thumbs_up),
                       thumbs_down |-> PgColumn(row.thumbs_down)])
    ELSE ServerError

\* POST /api/song/:songHash/rate with a body that passes validation.
SeqRate(h, body) ==
    /\ Validate(body) = "ok"
    /\ submits < MaxSeqSubmits
    /\ LET t == SqliteTransaction(songs, ratings, h, body, "none")
           u == PgTransaction(pgSongs, pgRatings, h, body)
       IN  /\ songs' = t.songs
           /\ ratings' = t.ratings
           /\ sent' = RateResp(h, body,
                IF t.ok
                THEN RateOkSqlite(UpdatedRatingsQuery(t.ratings, t.songId))
                ELSE ServerError)
           /\ pgSongs' = u.songs
           /\ pgRatings' = u.ratings
           /\ pgSent' = RateResp(h, body, PgRateResult(u))
    /\ latest' = [latest EXCEPT ![h][Bind(body.userId)] = body.rating.val]
    /\ submits' = submits + 1
    /\ UNCHANGED <<auxVars,
                   isProduction, pc, req, songId, txSongs, txRatings, faults>>

\* POST /api/song/:songHash/rate with a body that fails validation.
SeqReject(h, body) ==
    /\ Validate(body) # "ok"
    /\ sent' = RateResp(h, body, BadRequest(Validate(body)))
    /\ pgSent' = RateResp(h, body, BadRequest(Validate(body)))
    /\ UNCHANGED <<auxVars,
                   isProduction, songs, ratings, pc, req, songId, txSongs,
                   txRatings, faults, submits, pgSongs, pgRatings, latest>>

\* The 200 response of GET /api/song/:songHash/ratings.
RatingsResp(h, body) ==
    [op |-> "ratings", songHash |-> h, status |-> 200,
     thumbs_up |-> body.thumbs_up, thumbs_down |-> body.thumbs_down]

\* A GET .../ratings that first makes sure the song has a row, as the
\* submission does.
SeqGetRatings_EnsureSong(h) ==
    /\ songs' = IF SongsByHash(songs, h) # {} THEN songs
                ELSE songs \cup {SongRow(NextId(songs), "T", "A", SqlNull, h)}
    /\ pgSongs' = IF SongsByHash(pgSongs, h) # {} THEN pgSongs
                  ELSE pgSongs
                       \cup {SongRow(NextId(pgSongs), "T", "A", SqlNull, h)}
    /\ sent' = RatingsResp(h, RatingsBodyOf(FALSE, songs, ratings, h))
    /\ pgSent' = RatingsResp(h, RatingsBodyOf(TRUE, pgSongs, pgRatings, h))
    /\ UNCHANGED <<auxVars,
                   isProduction, ratings, pc, req, songId, txSongs,
                   txRatings, faults, submits, pgRatings, latest>>

\* GET /api/song/:songHash/ratings
SeqGetRatings(h) ==
    /\ sent' = RatingsResp(h, RatingsBodyOf(FALSE, songs, ratings, h))
    /\ pgSent' = RatingsResp(h, RatingsBodyOf(TRUE, pgSongs, pgRatings, h))
    /\ UNCHANGED <<auxVars,
                   isProduction, songs, ratings, pc, req, songId, txSongs,
                   txRatings, faults, submits, pgSongs, pgRatings, latest>>

\* The 200 response of GET /api/song/:songHash/user-rating/:userId.
UserRatingResp(h, uid, body) ==
    [op |-> "user-rating", songHash |-> h, userId |-> uid, status |-> 200,
     rating |-> body.rating]

\* GET /api/song/:songHash/user-rating/:userId
SeqGetUserRating(h, uid) ==
    /\ sent' = UserRatingResp(h, uid, UserRatingBodyOf(songs, ratings, h, uid))
    /\ pgSent' = UserRatingResp(h, uid,
                    UserRatingBodyOf(pgSongs, pgRatings, h, uid))
    /\ UNCHANGED <<auxVars,
                   isProduction, songs, ratings, pc, req, songId, txSongs,
                   txRatings, faults, submits, pgSongs, pgRatings, latest>>

InitSeq == Init /\ ~isProduction

NextSeq ==
    \/ \E h \in SongHashes : \E body \in SeqBodies(h) : SeqRate(h, body)
    \/ \E body \in SeqBodies("h1") : SeqReject("h1", body)
    \/ \E h \in SongHashes : SeqGetRatings(h)
    \/ \E h \in SongHashes, uid \in ReaderIds : SeqGetUserRating(h, uid)

SpecSeq == InitSeq /\ [][NextSeq]_vars

(***************************************************************************)
(* Process start-up of server-postgres.js: initializeSchema                *)
(* (src/database/schema.js) and app.listen.                                *)
(*   sqlite    initializeSchema runs db.exec three times, synchronously,   *)
(*             while the module loads; an exception ends the process       *)
(*             before app.listen.                                          *)
(*   postgres  initDb() is called and not awaited: initializeSchema hands  *)
(*             the three statements to pool.query in one Promise.all and   *)
(*             the module goes on to app.listen; the statements run on     *)
(*             separate pool connections, in any order; the first          *)
(*             rejection reaches the catch of initDb: process.exit(1).     *)
(***************************************************************************)
\* Rate requests served during one start-up run.
MaxServed == 2

\* The store: the table definitions and the rows of songs and ratings.
Store(tbls, ss, rs) == [tables |-> tbls, songs |-> ss, ratings |-> rs]

\* DROP TABLE IF EXISTS t; CREATE TABLE t (...): the table is made anew.
CreateTable_Recreate(db, t, def) ==
    [tables |-> [db.tables EXCEPT ![t] = def],
     songs |-> IF t = "songs" THEN {} ELSE db.songs,
     ratings |-> IF t = "ratings" THEN EmptyBag ELSE db.ratings]

\* CREATE TABLE IF NOT EXISTS t (...): the store after the statement.
CreateTableIfNotExists(db, t, def) ==
    IF db.tables[t] # Absent THEN db
    ELSE [db EXCEPT !.tables[t] = def]

\* The error of CREATE TABLE IF NOT EXISTS t: PostgreSQL resolves REFERENCES
\* songs (id) when it creates ratings; SQLite resolves it when rows are
\* written.
CreateTableError(kind, tbls, t) ==
    IF kind = "postgres" /\ t = "ratings" /\ tbls["ratings"] = Absent
       /\ tbls["songs"] = Absent
    THEN "relation \"songs\" does not exist"
    ELSE "none"

\* The tables init.sql creates when the PostgreSQL container is first
\* created: TEXT columns, ratings.song_id REFERENCES songs(id) ON DELETE
\* CASCADE.
InitSqlDef(t) ==
    [table |-> t,
     text |-> "TEXT",
     constraints |->
        CASE t = "users" -> {"PRIMARY KEY (id)", "UNIQUE (email)"}
          [] t = "songs" -> {"PRIMARY KEY (id)", "UNIQUE (song_hash)"}
          [] t = "ratings" ->
                {"PRIMARY KEY (id)", "CHECK (rating IN (-1, 1))",
                 "REFERENCES songs(id) ON DELETE CASCADE",
                 "UNIQUE (song_id, user_id)"}]

\* The tables a process may find when it starts: none (a new database),
\* those an earlier start created (all, or some when it failed), or those
\* of init.sql.
StartTables(kind) ==
    {[t \in TableSet |-> IF t \in S THEN TableDef(kind, t) ELSE Absent] :
        S \in {S \in SUBSET TableSet : "ratings" \in S => "songs" \in S}}
    \cup (IF kind = "postgres" THEN {[t \in TableSet |-> InitSqlDef(t)]}
          ELSE {})

\* The position of a table in the order of initializeSchema.
TableIndex(t) == CHOOSE i \in 1..Len(TableNames) : TableNames[i] = t

\* All three statements have succeeded.
SchemaInitialized == \A t \in TableSet : stmt[t] = "done"

\* postgres: initDb() (line 84) calls initializeSchema, whose Promise.all
\* issues the three statements; then the module reaches app.listen.
StartPg ==
    /\ dbType = "postgres"
    /\ proc = "load"
    /\ stmt' = [t \in TableSet |-> "issued"]
    /\ proc' = "listening"
    /\ sent' = NoResp
    /\ UNCHANGED <<offBoot, seqVars, isProduction, songs, ratings, pc, req,
                   songId,
                   txSongs, txRatings, faults, submits, dbType, tables,
                   served>>

\* postgres: one of the issued statements runs and its promise settles; a
\* rejection (the statement's own error, or a storage failure) makes
\* Promise.all reject and initDb exit the process.
ExecutePg(t, fail) ==
    /\ dbType = "postgres"
    /\ stmt[t] = "issued"
    /\ fail => faults < MaxFaults
    /\ faults' = IF fail THEN faults + 1 ELSE faults
    /\ LET err == IF fail THEN "storage"
                  ELSE CreateTableError(dbType, tables, t)
           db == CreateTableIfNotExists(Store(tables, songs, ratings), t,
                                        TableDef(dbType, t))
       IN  IF err = "none"
           THEN /\ tables' = db.tables
                /\ songs' = db.songs
                /\ ratings' = db.ratings
                /\ stmt' = [stmt EXCEPT ![t] = "done"]
                /\ proc' = proc
           ELSE /\ stmt' = [stmt EXCEPT ![t] = "failed"]
                /\ proc' = "exited"
                /\ UNCHANGED <<tables, songs, ratings>>
    /\ sent' = NoResp
    /\ UNCHANGED <<offBoot, seqVars, isProduction, pc, req, songId, txSongs,
                   txRatings, submits, dbType, served>>

\* sqlite: the next db.exec of initializeSchema, in the order users, songs,
\* ratings; an exception leaves the module before app.listen.
ExecSqlite(t, fail) ==
    /\ dbType = "sqlite"
    /\ proc = "load"
    /\ stmt[t] = "idle"
    /\ \A u \in TableSet : TableIndex(u) < TableIndex(t) => stmt[u] = "done"
    /\ fail => faults < MaxFaults
    /\ faults' = IF fail THEN faults + 1 ELSE faults
    /\ LET err == IF fail THEN "storage"
                  ELSE CreateTableError(dbType, tables, t)
           db == CreateTableIfNotExists(Store(tables, songs, ratings), t,
                                        TableDef(dbType, t))
       IN  IF err = "none"
           THEN /\ tables' = db.tables
                /\ songs' = db.songs
                /\ ratings' = db.ratings
                /\ stmt' = [stmt EXCEPT ![t] = "done"]
                /\ proc' = proc
           ELSE /\ stmt' = [stmt EXCEPT ![t] = "failed"]
                /\ proc' = "exited"
                /\ UNCHANGED <<tables, songs, ratings>>
    /\ sent' = NoResp
    /\ UNCHANGED <<offBoot, seqVars, isProduction, pc, req, songId, txSongs,
                   txRatings, submits, dbType, served>>

\* sqlite: initializeSchema has returned; the module reaches app.listen.
ListenSqlite ==
    /\ dbType = "sqlite"
    /\ proc = "load"
    /\ SchemaInitialized
    /\ proc' = "listening"
    /\ sent' = NoResp
    /\ UNCHANGED <<offBoot, seqVars, isProduction, songs, ratings, pc, req,
                   songId,
                   txSongs, txRatings, faults, submits, dbType, tables, stmt,
                   served>>

\* The listening process serves POST /api/song/:songHash/rate with a valid
\* body: its statements run on the store as it is (they fail while songs or
\* ratings does not exist).
ServeRate(h, body) ==
    /\ proc = "listening"
    /\ served < MaxServed
    /\ Validate(body) = "ok"
    /\ served' = served + 1
    /\ IF tables["songs"] = Absent \/ tables["ratings"] = Absent
       THEN /\ sent' = RateResp(h, body, ServerError)
            /\ UNCHANGED <<songs, ratings>>
       ELSE IF dbType = "postgres"
       THEN LET t == PgTransaction(songs, ratings, h, body)
            IN  /\ songs' = t.songs
                /\ ratings' = t.ratings
                /\ sent' = RateResp(h, body, PgRateResult(t))
       ELSE LET t == SqliteTransaction(songs, ratings, h, body, "none")
            IN  /\ songs' = t.songs
                /\ ratings' = t.ratings
                /\ sent' = RateResp(h, body,
                     IF t.ok
                     THEN RateOkSqlite(UpdatedRatingsQuery(t.ratings,
                                                           t.songId))
                     ELSE ServerError)
    /\ UNCHANGED <<offBoot, seqVars, isProduction, pc, req, songId, txSongs,
                   txRatings, faults, submits, dbType, tables, stmt, proc>>

\* A process starts on a store: a new one, one an earlier process
\* initialised (with or without rated songs), or one init.sql initialised.
InitInit ==
    /\ dbType \in {"sqlite", "postgres"}
    /\ isProduction = (dbType = "postgres")
    /\ tables \in StartTables(dbType)
    /\ \/ songs = {} /\ ratings = EmptyBag
       \/ /\ tables["songs"] # Absent
          /\ tables["ratings"] # Absent
          /\ songs = PersistedSongs
          /\ ratings = PersistedRatings
    /\ stmt = [t \in TableSet |-> "idle"]
    /\ proc = "load"
    /\ served = 0
    /\ pc = [p \in Procs |-> "idle"]
    /\ req = [p \in Procs |-> NoReq]
    /\ songId = [p \in Procs |-> 0]
    /\ txSongs = [p \in Procs |-> {}]
    /\ txRatings = [p \in Procs |-> {}]
    /\ sent = NoResp
    /\ faults = 0
    /\ submits = 0
    /\ InitSeqVars
    /\ InitPoolVars
    /\ InitHashVars
    /\ InitWidgetVars
    /\ InitIdVars
    /\ InitPlayerVars
    /\ InitLeaseVars

NextInit ==
    \/ StartPg
    \/ \E t \in TableSet, fail \in BOOLEAN : ExecutePg(t, fail)
    \/ \E t \in TableSet, fail \in BOOLEAN : ExecSqlite(t, fail)
    \/ ListenSqlite
    \/ \E body \in TrackBodies("h1") : ServeRate("h1", body)

SpecInit == InitInit /\ [][NextInit]_vars

(***************************************************************************)
(* The connection pool of server-postgres.js (pool, lines 41-50): a rate   *)
(* handler holds a client from pool.connect() to client.release(); the     *)
(* aggregate read of the rate handler and the GET handlers go through      *)
(* pool.query, which takes a client for one statement. A request for a     *)
(* client waits while every client is in use, and is rejected after        *)
(* connectionTimeoutMillis.                                                *)
(***************************************************************************)
\* The clients of the pool (max: 20 in the source), scaled to the two rate
\* slots so that they can use up the pool.
PoolMax == 1

\* The handler positions at which a rate slot holds its client.
ClientStates ==
    {"begin", "insertSong", "selectSong", "insertRating", "commit",
     "rollback"}

PoolBusy == Cardinality({p \in Procs : pc[p] \in ClientStates})
PoolFree == PoolBusy < PoolMax

\* pool.connect() resolves with a client.
ConnectPooled(p) == PoolFree /\ Connect(p)

\* pool.connect() rejects after connectionTimeoutMillis without a free
\* client: the outer catch answers 500.
ConnectTimeout(p) ==
    /\ ~PoolFree
    /\ pc[p] = "connect"
    /\ sent' = RateResp(req[p].songHash, req[p].body, ServerError)
    /\ Finish(p)
    /\ UNCHANGED <<auxVars, seqVars, isProduction, songs, ratings, txSongs,
                   txRatings, faults, submits>>

\* "Get updated ratings" through pool.query, with a client free.
UpdatedRatingsPooled(p) == PoolFree /\ UpdatedRatings(p)

\* "Get updated ratings" rejects after connectionTimeoutMillis without a
\* free client: the outer catch answers 500.
UpdatedRatingsTimeout(p) ==
    /\ ~PoolFree
    /\ pc[p] = "updatedRatings"
    /\ sent' = RateResp(req[p].songHash, req[p].body, ServerError)
    /\ Finish(p)
    /\ UNCHANGED <<auxVars, seqVars, isProduction, songs, ratings, txSongs,
                   txRatings, faults, submits>>

\* A GET arrives: its handler calls get(...) and awaits the row.
GetStart(r, op, h, uid) ==
    /\ isProduction
    /\ rd[r] = NoGet
    /\ rd' = [rd EXCEPT ![r] = [state |-> "query", op |-> op,
                                songHash |-> h, userId |-> uid]]
    /\ sent' = NoResp
    /\ UNCHANGED <<offPool, seqVars, isProduction, songs, ratings, pc, req,
                   songId, txSongs, txRatings, faults, submits>>

\* The 500 response of a GET.
GetError(g) ==
    IF g.op = "ratings"
    THEN [op |-> "ratings", songHash |-> g.songHash, status |-> 500]
    ELSE [op |-> "user-rating", songHash |-> g.songHash,
          userId |-> g.userId, status |-> 500]

\* The query of the GET runs on a free client: res.json(...).
GetAnswer(r) ==
    /\ rd[r] # NoGet
    /\ PoolFree
    /\ sent' = IF rd[r].op = "ratings"
               THEN RatingsResp(rd[r].songHash,
                       RatingsBodyOf(TRUE, songs, ratings, rd[r].songHash))
               ELSE UserRatingResp(rd[r].songHash, rd[r].userId,
                       UserRatingBodyOf(songs, ratings, rd[r].songHash,
                                        rd[r].userId))
    /\ rd' = [rd EXCEPT ![r] = NoGet]
    /\ UNCHANGED <<offPool, seqVars, isProduction, songs, ratings, pc, req,
                   songId, txSongs, txRatings, faults, submits>>

\* pool.query rejects after connectionTimeoutMillis without a free client:
\* the catch answers 500.
GetTimeout(r) ==
    /\ rd[r] # NoGet
    /\ ~PoolFree
    /\ sent' = GetError(rd[r])
    /\ rd' = [rd EXCEPT ![r] = NoGet]
    /\ UNCHANGED <<offPool, seqVars, isProduction, songs, ratings, pc, req,
                   songId, txSongs, txRatings, faults, submits>>

\* The query of the GET rejects: the catch answers 500.
GetFail(r) ==
    /\ rd[r] # NoGet
    /\ faults < MaxFaults
    /\ faults' = faults + 1
    /\ sent' = GetError(rd[r])
    /\ rd' = [rd EXCEPT ![r] = NoGet]
    /\ UNCHANGED <<offPool, seqVars, isProduction, songs, ratings, pc, req,
                   songId, txSongs, txRatings, submits>>

\* The continuation of slot p's handler once the call it awaits settles.
ProcStep(p) ==
    \/ ConnectPooled(p)
    \/ ConnectTimeout(p)
    \/ Begin(p)
    \/ InsertSong(p)
    \/ SelectSong(p)
    \/ InsertRating(p)
    \/ Commit(p)
    \/ Rollback(p)
    \/ RollbackFail(p)
    \/ UpdatedRatingsPooled(p)
    \/ UpdatedRatingsTimeout(p)

\* The continuation of reader r's handler once its query settles.
ReaderStep(r) == GetAnswer(r) \/ GetTimeout(r)

\* The rate requests of the pool runs: thumbs up for h1, by either user.
PoolBodies == {b \in TrackBodies("h1") : b.rating = Num(1)}

NextPool ==
    \/ \E p \in Procs, body \in PoolBodies : Accept(p, "h1", body)
    \/ \E p \in Procs : ProcStep(p)
    \/ \E p \in Procs : ConnectFail(p)
    \/ \E p \in Procs : StatementFail(p)
    \/ \E p \in Procs : UpdatedRatingsFail(p)
    \/ \E r \in Readers, op \in {"ratings", "user-rating"} :
          GetStart(r, op, "h1", "u1")
    \/ \E r \in Readers : ReaderStep(r)
    \/ \E r \in Readers : GetFail(r)

\* Every storage call returns or fails, and the event loop runs the
\* continuation of every settled call.
FairPool ==
    /\ \A p \in Procs : WF_vars(ProcStep(p))
    /\ \A r \in Readers : WF_vars(ReaderStep(r))

SpecPool == InitPg /\ [][NextPool]_vars /\ FairPool

(***************************************************************************)
(* Hashing: hashString and getSongHash of src/utils/hash.js, and the       *)
(* methods of the same names of RadioPlayer (public/radio.js). A string    *)
(* is the sequence of its characters. The hash is a 32-bit integer, kept   *)
(* as the two 16-bit halves of its two's complement, so that every         *)
(* intermediate value of the arithmetic below stays under 2^31.            *)
(***************************************************************************)
\* The longest text of a track field.
MaxTextLen == 2

\* The characters of the texts: a letter in both cases, and another one.
HashAlphabet == {"A", "a", "b"}
Texts == UNION {[1..k -> HashAlphabet] : k \in 0..MaxTextLen}

\* A string value, as the sequence of its characters.
Text(cs) == [type |-> "string", val |-> cs]
\* An object, as the function from its own property names to their values.
Obj(props) == [type |-> "object", val |-> props]
\* o.k: undefined when o has no property k.
Prop(o, k) == IF k \in DOMAIN o.val THEN o.val[k] ELSE Undefined

\* !x, for a string given as its characters
FalsyText(x) ==
    \/ x.type \in {"undefined", "null", "NaN"}
    \/ x.type = "number" /\ x.val = 0
    \/ x.type = "string" /\ Len(x.val) = 0

\* str.charCodeAt(i)
CharCodeAt(c) ==
    CASE c = "A" -> 65
      [] c = "a" -> 97
      [] c = "b" -> 98
      [] c = "_" -> 95
      [] c = "d" -> 100
      [] c = "e" -> 101
      [] c = "f" -> 102
      [] c = "i" -> 105
      [] c = "n" -> 110
      [] c = "u" -> 117

\* String.fromCharCode(n)
FromCharCode(n) == CHOOSE c \in HashAlphabet \cup {"_"} : CharCodeAt(c) = n

\* str.toLowerCase(): the letters A-Z become a-z.
ToLowerCase(cs) ==
    [i \in 1..Len(cs) |->
        IF CharCodeAt(cs[i]) \in 65..90
        THEN FromCharCode(CharCodeAt(cs[i]) + 32)
        ELSE cs[i]]

\* A 32-bit integer of halves hi and lo (each in 0..65535).
Word(hi, lo) == [hi |-> hi, lo |-> lo]
Zero32 == Word(0, 0)

\* w << 5
Shl5(w) ==
    Word((w.hi * 32 + (w.lo \div 2048)) % 65536, (w.lo * 32) % 65536)

\* (a - b) & (a - b)
Sub32(a, b) ==
    LET lo == a.lo - b.lo
        borrow == IF lo < 0 THEN 1 ELSE 0
    IN  Word((a.hi - b.hi - borrow) % 65536, lo % 65536)

\* (a + n) & (a + n), for a character code n
Add32(a, n) ==
    LET lo == a.lo + n
    IN  Word((a.hi + (lo \div 65536)) % 65536, lo % 65536)

\* for (i ...) { hash = ((hash << 5) - hash) + char; hash = hash & hash; }
\* (& reduces modulo 2^32, so the reduction may be done at each operation)
\* The hash is a 32-bit integer at every test of the loop condition.
Int32 == [hi : 0..65535, lo : 0..65535]
RECURSIVE HashLoop(_, _, _)
HashLoop(cs, i, hash) ==
    IF hash \in Int32 /\ i <= Len(cs)
    THEN HashLoop(cs, i + 1,
                  Add32(Sub32(Shl5(hash), hash), CharCodeAt(cs[i])))
    ELSE hash

\* Math.abs(hash): the magnitude, a number in 0..2^31, as halves.
MathAbs(w) == IF w.hi >= 32768 THEN Sub32(Zero32, w) ELSE w

Digits36 ==
    <<"0", "1", "2", "3", "4", "5", "6", "7", "8", "9", "a", "b", "c",
      "d", "e", "f", "g", "h", "i", "j", "k", "l", "m", "n", "o", "p",
      "q", "r", "s", "t", "u", "v", "w", "x", "y", "z">>

\* n.toString(36), by long division of the halves.
RECURSIVE ToString36(_)
ToString36(w) ==
    LET rest == (w.hi % 36) * 65536 + w.lo
        q == Word(w.hi \div 36, rest \div 36)
        digit == Digits36[(rest % 36) + 1]
    IN  IF q = Zero32 THEN <<digit>>
        ELSE Append(ToString36(q), digit)

\* What a call did: it returned a value or threw an error.
Return(v) == [kind |-> "return", val |-> v]
Throw(message) == [kind |-> "throw", val |-> <<message>>]

\* The loop and the conversion both versions of hashString share.
HashText(cs) == ToString36(MathAbs(HashLoop(cs, 1, Zero32)))

\* hashString without its typeof check.
hashString_NoTypeCheck(str) ==
    IF str.type = "string" THEN Return(HashText(str.val))
    ELSE Return(<<"0">>)

\* hashString(str) of src/utils/hash.js
hashString(str) ==
    IF str.type # "string"
    THEN Throw("hashString expects a string input")
    ELSE Return(HashText(str.val))

\* ${x || ''} in a template literal, for x a string, undefined or null
TemplateOrEmpty(x) == IF FalsyText(x) THEN <<>> ELSE x.val

\* A template that does not fall back to '' for the album.
HashInput_Undefined(track) ==
    ToLowerCase(TemplateOrEmpty(Prop(track, "artist")) \o <<"_">>
                \o TemplateOrEmpty(Prop(track, "title")) \o <<"_">>
                \o (IF Prop(track, "album").type = "undefined"
                    THEN <<"u", "n", "d", "e", "f", "i", "n", "e", "d">>
                    ELSE TemplateOrEmpty(Prop(track, "album"))))

\* `${track.artist || ''}_${track.title || ''}_${track.album || ''}`
\*     .toLowerCase()
HashInput(track) ==
    ToLowerCase(TemplateOrEmpty(Prop(track, "artist")) \o <<"_">>
                \o TemplateOrEmpty(Prop(track, "title")) \o <<"_">>
                \o TemplateOrEmpty(Prop(track, "album")))

\* getSongHash(track) of src/utils/hash.js
getSongHash(track) ==
    IF \/ FalsyText(track)
       \/ FalsyText(Prop(track, "artist"))
       \/ FalsyText(Prop(track, "title"))
    THEN Throw("getSongHash requires track object with artist and title")
    ELSE hashString(Text(HashInput(track)))

\* RadioPlayer.hashString(str): str.length of undefined or null throws a
\* TypeError; a value without a length skips the loop.
RadioPlayer_hashString(str) ==
    CASE str.type \in {"undefined", "null"} -> Throw("TypeError")
      [] str.type = "string" -> Return(HashText(str.val))
      [] OTHER -> Return(HashText(<<>>))

\* RadioPlayer.getSongHash(track): track.artist of undefined or null throws
\* a TypeError.
RadioPlayer_getSongHash(track) ==
    IF track.type \in {"undefined", "null"} THEN Throw("TypeError")
    ELSE RadioPlayer_hashString(Text(HashInput(track)))

\* The values of a property of a track.
FieldValues == {Undefined, Null} \cup {Text(cs) : cs \in Texts}
TrackKeys == {"artist", "title", "album"}
\* The arguments of getSongHash: objects with any of the three properties,
\* and no object.
Tracks ==
    {Obj(f) : f \in UNION {[D -> FieldValues] : D \in SUBSET TrackKeys}}
        \cup {Undefined, Null}
\* The arguments of hashString: strings (the longer ones hash beyond 32
\* bits), and values that are no strings.
HashArgs ==
    FieldValues \cup {Num(0), Num(7)}
        \cup {Text(a \o <<"_">> \o b \o b \o a \o a) :
                 a \in Texts, b \in Texts}
Calls ==
    {[fn |-> "getSongHash", arg |-> t] : t \in Tracks}
        \cup {[fn |-> "hashString", arg |-> x] : x \in HashArgs}

\* The rest of the state while the hash functions are called.
ratingVars == <<isProduction, songs, ratings, pc, req, songId, txSongs,
                txRatings, sent, faults, submits>>

\* The shared utility is called.
UtilGetSongHash ==
    /\ call.fn = "getSongHash"
    /\ util = NotCalled
    /\ util' = getSongHash(call.arg)
    /\ UNCHANGED <<ratingVars, seqVars, offHash, call, client>>

UtilHashString ==
    /\ call.fn = "hashString"
    /\ util = NotCalled
    /\ util' = hashString(call.arg)
    /\ UNCHANGED <<ratingVars, seqVars, offHash, call, client>>

\* The method of RadioPlayer is called.
ClientGetSongHash ==
    /\ call.fn = "getSongHash"
    /\ client = NotCalled
    /\ client' = RadioPlayer_getSongHash(call.arg)
    /\ UNCHANGED <<ratingVars, seqVars, offHash, call, util>>

ClientHashString ==
    /\ call.fn = "hashString"
    /\ client = NotCalled
    /\ client' = RadioPlayer_hashString(call.arg)
    /\ UNCHANGED <<ratingVars, seqVars, offHash, call, util>>

\* One call, of either function on any argument, about to be made.
InitHash ==
    /\ isProduction = FALSE
    /\ songs = {}
    /\ ratings = EmptyBag
    /\ pc = [p \in Procs |-> "idle"]
    /\ req = [p \in Procs |-> NoReq]
    /\ songId = [p \in Procs |-> 0]
    /\ txSongs = [p \in Procs |-> {}]
    /\ txRatings = [p \in Procs |-> {}]
    /\ sent = NoResp
    /\ faults = 0
    /\ submits = 0
    /\ InitSeqVars
    /\ InitBooted("sqlite")
    /\ InitPoolVars
    /\ call \in Calls
    /\ util = NotCalled
    /\ client = NotCalled
    /\ InitWidgetVars
    /\ InitIdVars
    /\ InitPlayerVars
    /\ InitLeaseVars

NextHash ==
    \/ UtilGetSongHash
    \/ UtilHashString
    \/ ClientGetSongHash
    \/ ClientHashString

SpecHash == InitHash /\ [][NextHash]_vars

(***************************************************************************)
(* The rating widget of the page: RadioPlayer.rateSong, loadRatings,       *)
(* setupRatingButtons and updateNowPlaying (public/radio.js), with the     *)
(* user id that initializeUserId sets once getUserId has resolved. The     *)
(* requests of the page are handled by server.js on its SQLite store; a    *)
(* request, its handling and the delivery of its response are separate     *)
(* steps, so that responses overtake each other.                           *)
(***************************************************************************)
\* Clicks on the rating buttons in one run.
MaxClicks == 2

\* Metadata documents delivered to updateNowPlaying in one run.
MaxRefresh == 2

\* The metadata of the stream: two tracks, one without album.
WidgetTracks ==
    {Obj([artist |-> Text(<<"A">>), title |-> Text(<<"b">>)]),
     Obj([artist |-> Text(<<"a">>), title |-> Text(<<"a", "b">>),
          album |-> Text(<<"b">>)])}

\* The characters of a string, as the string.
RECURSIVE JoinChars(_)
JoinChars(cs) == IF cs = <<>> THEN "" ELSE Head(cs) \o JoinChars(Tail(cs))

\* A value of the page as JSON.stringify and express.json() hand it to the
\* handler: a property that is undefined is left out, and reads undefined.
FromJson(x) == IF x.type = "string" THEN Str(JoinChars(x.val)) ELSE x

DecimalDigits == <<"0", "1", "2", "3", "4", "5", "6", "7", "8", "9">>

\* The text of a count: element.textContent = n.
RECURSIVE TextContent(_)
TextContent(n) ==
    IF n < 10 THEN DecimalDigits[n + 1]
    ELSE TextContent(n \div 10) \o DecimalDigits[(n % 10) + 1]

\* updateRatingButtons(userRating) that lights no button.
UpdateRatingButtons_None(userRating) == 0

\* updateRatingButtons(userRating): both buttons reset, then the one of
\* userRating made active (1: thumbs up, -1: thumbs down, 0: neither).
UpdateRatingButtons(userRating) ==
    IF StrictEqNum(userRating, 1) THEN 1
    ELSE IF StrictEqNum(userRating, -1) THEN -1
    ELSE 0

\* A guard that forgets the user id.
RateSongReturns_TrackOnly == Falsy(currentTrack)

\* if (!this.currentTrack || !this.userId) return;
RateSongReturns == Falsy(currentTrack) \/ Falsy(userId)

\* The request rateSong(rating) sends for the current track, as call n.
RateRequest(n, rating) ==
    [id |-> n,
     songHash |-> RadioPlayer_getSongHash(currentTrack).val,
     body |-> [rating |-> Num(rating),
               userId |-> userId,
               title |-> Prop(currentTrack, "title"),
               artist |-> Prop(currentTrack, "artist"),
               album |-> Prop(currentTrack, "album")]]

\* rateSong(rating), up to its await of fetch: the requests call n sends.
RateSong(n, rating) ==
    IF RateSongReturns THEN {} ELSE {RateRequest(n, rating)}

\* The body of request f as the handler of the server reads it.
ParsedBody(f) ==
    [rating |-> f.body.rating,
     userId |-> f.body.userId,
     title |-> FromJson(f.body.title),
     artist |-> FromJson(f.body.artist),
     album |-> FromJson(f.body.album)]

\* What the page shows of the ratings.
shown == <<thumbsUpCount, thumbsDownCount, active>>

\* What the rate handlers of the servers keep besides the store.
handlerVars == <<isProduction, pc, req, songId, txSongs, txRatings, sent,
                 submits>>

\* updateNowPlaying(data): the metadata fetch delivered data. A null
\* document is stored before data.artist throws; otherwise the timeout of
\* setupRatingButtons and loadRatings is set.
UpdateNowPlaying(data) ==
    /\ refreshes < MaxRefresh
    /\ refreshes' = refreshes + 1
    /\ currentTrack' = data
    /\ setups' = IF data = Null THEN setups ELSE setups + 1
    /\ UNCHANGED <<ratingVars, seqVars, offWidget, userId, inflight, shown,
                   clicks, listeners, answers, loading, completed>>

\* initializeUserId: getUserId() has resolved.
InitializeUserId ==
    /\ userId = Undefined
    /\ userId' = Str("u1")
    /\ UNCHANGED <<ratingVars, seqVars, offWidget, currentTrack, inflight,
                   shown, clicks, listeners, setups, refreshes, answers,
                   loading, completed>>

\* A timeout of updateNowPlaying fires: setupRatingButtons() adds a click
\* listener to each button, loadRatings() runs up to its first fetch.
SetupTimeout ==
    /\ setups > 0
    /\ setups' = setups - 1
    /\ listeners' = listeners + 1
    /\ loading' =
         IF Falsy(currentTrack) \/ Falsy(userId) THEN loading
         ELSE loading \cup
                {[songHash |-> RadioPlayer_getSongHash(currentTrack).val,
                  stage |-> "ratings"]}
    /\ UNCHANGED <<ratingVars, seqVars, offWidget, currentTrack, userId,
                   inflight, shown, clicks, refreshes, answers, completed>>

\* A click on the thumbs-up (1) or thumbs-down (-1) button: each of its
\* listeners calls rateSong(rating).
Click(rating) ==
    /\ clicks < MaxClicks
    /\ clicks' = clicks + 1
    /\ inflight' = inflight \cup
         UNION {RateSong(<<clicks + 1, k>>, rating) : k \in 1..listeners}
    /\ UNCHANGED <<ratingVars, seqVars, offWidget, currentTrack, userId,
                   shown, listeners, setups, refreshes, answers, loading,
                   completed>>

\* The answer of server.js to request f: 400 from the validation, 500 when
\* the transaction or the query of the counts fails, else 200 with the
\* counts.
RateAnswer(f, t, fault) ==
    IF Validate(ParsedBody(f)) # "ok"
    THEN BadRequest(Validate(ParsedBody(f)))
    ELSE IF t.ok /\ fault # "ratingsQuery"
    THEN RateOkSqlite(UpdatedRatingsQuery(t.ratings, t.songId))
    ELSE ServerError

\* The server handles request f (POST /api/song/:songHash/rate).
ServeRequest(f, fault) ==
    /\ f \in inflight
    /\ \A a \in answers : a.req # f
    /\ fault # "none" => faults < MaxFaults /\ Validate(ParsedBody(f)) = "ok"
    /\ faults' = IF fault = "none" THEN faults ELSE faults + 1
    /\ LET t == IF Validate(ParsedBody(f)) # "ok"
                THEN [ok |-> FALSE, songs |-> songs, ratings |-> ratings,
                      songId |-> 0]
                ELSE SqliteTransaction(songs, ratings,
                         JoinChars(f.songHash), ParsedBody(f), fault)
       IN  /\ songs' = t.songs
           /\ ratings' = t.ratings
           /\ answers' = answers \cup
                           {[req |-> f, res |-> RateAnswer(f, t, fault)]}
    /\ UNCHANGED <<handlerVars, seqVars, offWidget, currentTrack, userId,
                   inflight, shown, clicks, listeners, setups, refreshes,
                   loading, completed>>

\* The response a of request f is ok: the counts of the response are shown
\* and the button of the rating is made active.
RateResponseOk(a) ==
    /\ a \in answers
    /\ a.res.status = 200
    /\ inflight' = inflight \ {a.req}
    /\ answers' = answers \ {a}
    /\ thumbsUpCount' = TextContent(a.res.thumbs_up)
    /\ thumbsDownCount' = TextContent(a.res.thumbs_down)
    /\ active' = UpdateRatingButtons(a.req.body.rating)
    /\ completed' = [kind |-> "ok", res |-> a.res]
    /\ UNCHANGED <<ratingVars, seqVars, offWidget, currentTrack, userId,
                   clicks, listeners, setups, refreshes, loading>>

\* The response a is not ok: console.error.
RateResponseNotOk(a) ==
    /\ a \in answers
    /\ a.res.status # 200
    /\ inflight' = inflight \ {a.req}
    /\ answers' = answers \ {a}
    /\ completed' = [kind |-> "not ok", res |-> a.res]
    /\ UNCHANGED <<ratingVars, seqVars, offWidget, currentTrack, userId,
                   shown, clicks, listeners, setups, refreshes, loading>>

\* fetch of request f rejects (the network fails, before or after the
\* server handled the request): the catch block logs the error.
RateFetchError(f) ==
    /\ f \in inflight
    /\ inflight' = inflight \ {f}
    /\ answers' = {a \in answers : a.req # f}
    /\ completed' = [kind |-> "threw", res |-> ServerError]
    /\ UNCHANGED <<ratingVars, seqVars, offWidget, currentTrack, userId,
                   shown, clicks, listeners, setups, refreshes, loading>>

\* loadRatings: GET /api/song/:songHash/ratings of load l is answered (the
\* counts are shown when it is ok), and the fetch of the user's rating
\* follows unless the first fetch rejected.
LoadRatingsAnswered(l, outcome) ==
    /\ l \in loading
    /\ l.stage = "ratings"
    /\ LET body == RatingsBodyOf(FALSE, songs, ratings, JoinChars(l.songHash))
       IN  /\ thumbsUpCount' = IF outcome = "ok"
                               THEN TextContent(body.thumbs_up)
                               ELSE thumbsUpCount
           /\ thumbsDownCount' = IF outcome = "ok"
                                 THEN TextContent(body.thumbs_down)
                                 ELSE thumbsDownCount
    /\ loading' = (loading \ {l}) \cup
         IF outcome = "threw" THEN {}
         ELSE {[songHash |-> l.songHash, stage |-> "user-rating"]}
    /\ UNCHANGED <<ratingVars, seqVars, offWidget, currentTrack, userId,
                   inflight, active, clicks, listeners, setups, refreshes,
                   answers, completed>>

\* loadRatings: GET /api/song/:songHash/user-rating/:userId of load l is
\* answered; updateRatingButtons(userRating.rating) when it is ok.
LoadUserRatingAnswered(l, outcome) ==
    /\ l \in loading
    /\ l.stage = "user-rating"
    /\ active' =
         IF outcome = "ok"
         THEN UpdateRatingButtons(
                  UserRatingBodyOf(songs, ratings, JoinChars(l.songHash),
                                   Bind(userId)).rating)
         ELSE active
    /\ loading' = loading \ {l}
    /\ UNCHANGED <<ratingVars, seqVars, offWidget, currentTrack, userId,
                   inflight, thumbsUpCount, thumbsDownCount, clicks,
                   listeners, setups, refreshes, answers, completed>>

InitWidget ==
    /\ isProduction = FALSE
    /\ songs = {}
    /\ ratings = EmptyBag
    /\ pc = [p \in Procs |-> "idle"]
    /\ req = [p \in Procs |-> NoReq]
    /\ songId = [p \in Procs |-> 0]
    /\ txSongs = [p \in Procs |-> {}]
    /\ txRatings = [p \in Procs |-> {}]
    /\ sent = NoResp
    /\ faults = 0
    /\ submits = 0
    /\ InitSeqVars
    /\ InitBooted("sqlite")
    /\ InitPoolVars
    /\ InitHashVars
    /\ InitWidgetVars
    /\ InitLeaseVars
    /\ InitPlayerVars
    /\ InitIdVars

\* The ways a fetch of the page ends.
Outcomes == {"ok", "not ok", "threw"}

NextWidget ==
    \/ \E data \in WidgetTracks \cup {Null} : UpdateNowPlaying(data)
    \/ InitializeUserId
    \/ SetupTimeout
    \/ \E rating \in {1, -1} : Click(rating)
    \/ \E f \in inflight,
          fault \in {"none", "insertSong", "insertRating", "ratingsQuery"} :
          ServeRequest(f, fault)
    \/ \E a \in answers : RateResponseOk(a)
    \/ \E a \in answers : RateResponseNotOk(a)
    \/ \E f \in inflight : RateFetchError(f)
    \/ \E l \in loading, outcome \in Outcomes : LoadRatingsAnswered(l, outcome)
    \/ \E l \in loading, outcome \in Outcomes :
          LoadUserRatingAnswered(l, outcome)

SpecWidget == InitWidget /\ [][NextWidget]_vars

(***************************************************************************)
(* The play button: RadioPlayer.togglePlay, startTimer, stopTimer and       *)
(* updateElapsedTime of public/radio.js. A call of togglePlay that finds    *)
(* the player stopped is suspended at await this.audio.play(); the clicks, *)
(* the interval callbacks and the events of the audio element run in       *)
(* between.                                                                *)
(***************************************************************************)
\* The clicks on the play button of a run.
MaxToggles == 3

\* The seconds the clock of a run reaches.
MaxNow == 3

\* n.toString().padStart(2, '0'), for n under 100.
PadStart2(n) ==
    IF n < 10 THEN "0" \o DecimalDigits[n + 1]
    ELSE DecimalDigits[(n \div 10) + 1] \o DecimalDigits[(n % 10) + 1]

\* The text updateElapsedTime shows for elapsed seconds.
FormatElapsed(elapsed) ==
    PadStart2(elapsed \div 3600) \o ":"
        \o PadStart2((elapsed % 3600) \div 60) \o ":"
        \o PadStart2(elapsed % 60)

PlaybackFailed == "Playback failed - check connection"

\* The status lines of the listeners init() puts on the audio element.
AudioEvents ==
    [loadstart |-> "Loading stream...",
     canplay |-> "Ready to play",
     playing |-> "Playing live stream",
     pause |-> "Paused",
     error |-> "Connection error",
     waiting |-> "Buffering..."]

\* startTimer(): a new interval, kept in this.elapsedTimer.
StartTimer ==
    /\ startTime' = now
    /\ timerSeq' = timerSeq + 1
    /\ elapsedTimer' = timerSeq + 1
    /\ timers' = timers \cup {timerSeq + 1}

\* A stopTimer that leaves the display as it is.
StopTimer_KeepsDisplay ==
    /\ timers' = timers \ {elapsedTimer}
    /\ elapsedTimer' = 0
    /\ timeDisplay' = timeDisplay

\* stopTimer(): clearInterval of this.elapsedTimer if there is one, and the
\* display reset.
StopTimer ==
    /\ timers' = IF elapsedTimer # 0 THEN timers \ {elapsedTimer} ELSE timers
    /\ elapsedTimer' = 0
    /\ timeDisplay' = "00:00:00"

\* togglePlay() with this.isPlaying set: audio.pause(), stopTimer().
TogglePause ==
    /\ isPlaying
    /\ isPlaying' = FALSE
    /\ StopTimer
    /\ ended' = "paused"
    /\ UNCHANGED <<startTime, timerSeq, statusText, awaiting>>

\* togglePlay() with this.isPlaying unset, up to await this.audio.play().
ToggleAwaitPlay ==
    /\ ~isPlaying
    /\ awaiting' = awaiting + 1
    /\ UNCHANGED <<isPlaying, startTime, elapsedTimer, timers, timerSeq,
                   timeDisplay, statusText, ended>>

\* A click on the play button.
TogglePlay ==
    /\ toggles < MaxToggles
    /\ toggles' = toggles + 1
    /\ TogglePause \/ ToggleAwaitPlay
    /\ UNCHANGED <<ratingVars, seqVars, offPlayer, now>>

\* audio.play() resolves: the rest of the else branch of a suspended call.
PlayResolves ==
    /\ awaiting > 0
    /\ awaiting' = awaiting - 1
    /\ isPlaying' = TRUE
    /\ StartTimer
    /\ ended' = "played"
    /\ UNCHANGED <<ratingVars, seqVars, offPlayer, timeDisplay, statusText,
                   toggles, now>>

\* audio.play() rejects: the catch block of a suspended call.
PlayRejects ==
    /\ awaiting > 0
    /\ awaiting' = awaiting - 1
    /\ statusText' = PlaybackFailed
    /\ ended' = "failed"
    /\ UNCHANGED <<ratingVars, seqVars, offPlayer, isPlaying, startTime,
                   elapsedTimer, timers, timerSeq, timeDisplay, toggles, now>>

\* The callback of live interval id: updateElapsedTime().
Tick(id) ==
    /\ id \in timers
    /\ timeDisplay' = IF startTime # 0 /\ isPlaying
                      THEN FormatElapsed(now - startTime)
                      ELSE timeDisplay
    /\ UNCHANGED <<ratingVars, seqVars, offPlayer, isPlaying, startTime,
                   elapsedTimer, timers, timerSeq, statusText, awaiting,
                   toggles, now, ended>>

\* A second passes.
Second ==
    /\ now < MaxNow
    /\ now' = now + 1
    /\ UNCHANGED <<ratingVars, seqVars, offPlayer, isPlaying, startTime,
                   elapsedTimer, timers, timerSeq, timeDisplay, statusText,
                   awaiting, toggles, ended>>

\* The audio element fires event e: its listener sets the status line.
AudioEvent(e) ==
    /\ statusText' = AudioEvents[e]
    /\ UNCHANGED <<ratingVars, seqVars, offPlayer, isPlaying, startTime,
                   elapsedTimer, timers, timerSeq, timeDisplay, awaiting,
                   toggles, now, ended>>

NextPlayer ==
    \/ TogglePlay
    \/ PlayResolves
    \/ PlayRejects
    \/ \E id \in timers : Tick(id)
    \/ Second
    \/ \E e \in DOMAIN AudioEvents : AudioEvent(e)

SpecPlayer == InitWidget /\ [][NextPlayer]_vars

(***************************************************************************)
(* The client identifier: RadioPlayer.getUserId of public/radio.js, called *)
(* once per page load by initializeUserId. The fingerprint is hashString   *)
(* of the serialised environment; the user can clear localStorage, end the *)
(* session, and come back from another environment (another address, say). *)
(***************************************************************************)
\* The page loads of a run.
MaxLoads == 3

\* The serialised environments of the runs.
Envs == {Text(<<"a">>), Text(<<"b">>)}

\* generateFingerprint(): this.hashString(fingerprintString).
GenerateFingerprint(fingerprintString) ==
    Text(RadioPlayer_hashString(fingerprintString).val)

\* Date.now().toString(36), of a clock in seconds.
NowToString36(t) == ToString36(Word((t * 1000) \div 65536, (t * 1000) % 65536))

\* `fp_${fingerprint}_${Date.now().toString(36)}`
NewUserId(fingerprint, t) ==
    Text(<<"f", "p", "_">> \o fingerprint.val \o <<"_">> \o NowToString36(t))

\* A getUserId that makes a new identifier on every call.
getUserId_AlwaysNew(userId0, storedFingerprint, backup, fingerprint, t) ==
    [userId |-> NewUserId(fingerprint, t),
     lsUserId |-> NewUserId(fingerprint, t),
     lsFingerprint |-> fingerprint,
     ssBackup |-> NewUserId(fingerprint, t),
     written |-> {"radioCalico_userId", "radioCalico_fingerprint",
                  "radioCalico_userId_backup"}]

\* getUserId() from the reads of localStorage on: what it returns, what
\* the three storage keys hold afterwards, and the keys it wrote.
getUserId(userId0, storedFingerprint, backup, fingerprint, t) ==
    IF \/ FalsyText(userId0)
       \/ FalsyText(storedFingerprint)
       \/ storedFingerprint # fingerprint
    THEN [userId |-> NewUserId(fingerprint, t),
          lsUserId |-> NewUserId(fingerprint, t),
          lsFingerprint |-> fingerprint,
          ssBackup |-> NewUserId(fingerprint, t),
          written |-> {"radioCalico_userId", "radioCalico_fingerprint",
                       "radioCalico_userId_backup"}]
    ELSE IF FalsyText(userId0) /\ ~FalsyText(backup)
    THEN [userId |-> backup,
          lsUserId |-> backup,
          lsFingerprint |-> storedFingerprint,
          ssBackup |-> backup,
          written |-> {"radioCalico_userId"}]
    ELSE [userId |-> userId0,
          lsUserId |-> userId0,
          lsFingerprint |-> storedFingerprint,
          ssBackup |-> backup,
          written |-> {}]

\* A page load: initializeUserId calls getUserId().
LoadPage ==
    /\ loads < MaxLoads
    /\ loads' = loads + 1
    /\ LET got == getUserId(lsUserId, lsFingerprint, ssBackup,
                            GenerateFingerprint(env), now)
       IN  /\ gotUserId' = got.userId
           /\ lsUserId' = got.lsUserId
           /\ lsFingerprint' = got.lsFingerprint
           /\ ssBackup' = got.ssBackup
           /\ written' = got.written
    /\ UNCHANGED <<ratingVars, seqVars, offId, env>>

\* The user clears the localStorage of the site.
ClearLocalStorage ==
    /\ lsUserId # Null \/ lsFingerprint # Null
    /\ lsUserId' = Null
    /\ lsFingerprint' = Null
    /\ UNCHANGED <<ratingVars, seqVars, offId, ssBackup, env, gotUserId,
                   written, loads>>

\* The tab is closed: its sessionStorage is gone.
EndSession ==
    /\ ssBackup # Null
    /\ ssBackup' = Null
    /\ UNCHANGED <<ratingVars, seqVars, offId, lsUserId, lsFingerprint, env,
                   gotUserId, written, loads>>

\* The environment changes (address, screen, browser).
ChangeEnv(e) ==
    /\ e # env
    /\ env' = e
    /\ UNCHANGED <<ratingVars, seqVars, offId, lsUserId, lsFingerprint,
                   ssBackup, gotUserId, written, loads>>

NextUserId ==
    \/ LoadPage
    \/ ClearLocalStorage
    \/ EndSession
    \/ \E e \in Envs : ChangeEnv(e)
    \/ Second

SpecUserId == InitWidget /\ [][NextUserId]_vars

(***************************************************************************)
(* Properties.                                                             *)
(***************************************************************************)
\* The song ids of a songHash.
SongIds(ss, h) == {s.id : s \in SongsByHash(ss, h)}

\* The number of rating rows of user uid for the songs of songHash h.
RowCount(ss, rs, h, uid) ==
    LET rows == {r \in BagToSet(rs) :
                    r.user_id = uid /\ r.song_id \in SongIds(ss, h)}
    IN  BagCardinality([r \in rows |-> CopiesIn(r, rs)])

\* The number of rating rows with the key (sid, uid).
KeyCount(rs, sid, uid) ==
    BagCardinality([r \in RatingsByKey(rs, sid, uid) |-> CopiesIn(r, rs)])

\* The last step answered 200 to a submission.
RateOk == sent.op = "rate" /\ sent.status = 200

\* C1: at most one rating row per (song_id, user_id) in every reachable
\* state of the PostgreSQL server, whatever the interleaving of submissions;
\* and when a submission for (songHash, userId) is answered 200, exactly
\* one row exists for the pair.
C1_OneRowPerPair ==
    /\ \A r \in BagToSet(ratings) : KeyCount(ratings, r.song_id, r.user_id) = 1
    /\ RateOk =>
         RowCount(songs, ratings, sent.songHash, Bind(sent.body.userId)) = 1

\* A submission for a pair rated before (by the persisted row of u1 on h1)
\* was answered 200 with the other value.
C1_Witness ==
    /\ RateOk
    /\ sent.songHash = "h1"
    /\ sent.body.userId = Str("u1")
    /\ sent.body.rating = Num(-1)
    /\ PersistedSongs \subseteq songs
    /\ submits = 2

\* C2: when a submission (h, u, v) is answered 200 by the SQLite server,
\* GET /api/song/h/user-rating/u answers v on the store it leaves, whatever
\* the store held before.
C2_UserRatingIsSubmitted ==
    RateOk =>
        GetUserRatingBody(sent.songHash, Bind(sent.body.userId)).rating
            = sent.body.rating

\* The second of two submissions, both committed, for one pair: the store
\* holds one rating row and the submission asked for -1.
C2_Witness ==
    /\ ~isProduction
    /\ RateOk
    /\ sent.body.rating = Num(-1)
    /\ submits = 2
    /\ faults = 0
    /\ BagCardinality(ratings) = 1

\* C3: on PostgreSQL no submission fails unless a storage call failed (a
\* lost race for the song row is not an error), a songHash has at most one
\* song row, every rating row references exactly one song row, and a
\* submission answered 200 left its user's rating on the song of its hash.
C3_FirstSubmissionRace ==
    /\ (sent.op = "rate" /\ sent.status = 500) => faults > 0
    /\ \A p \in Procs : pc[p] = "rollback" => faults > 0
    /\ \A h \in SongHashes : Cardinality(SongsByHash(songs, h)) <= 1
    /\ \A r \in BagToSet(ratings) :
          Cardinality({s \in songs : s.id = r.song_id}) = 1
    /\ RateOk =>
         RowCount(songs, ratings, sent.songHash, Bind(sent.body.userId)) = 1

\* Two users' submissions for the unseen h2 are in flight: p1 has committed
\* the song row it inserted, p2 found the conflict and reads the row.
C3_Witness ==
    /\ pc["p1"] = "updatedRatings"
    /\ pc["p2"] = "selectSong"
    /\ req["p1"].songHash = "h2"
    /\ req["p2"].songHash = "h2"
    /\ req["p1"].body.userId # req["p2"].body.userId
    /\ faults = 0

\* The rows of user uid with value v on the songs of songHash h.
UserCountOnSide(ss, rs, h, uid, v) ==
    LET rows == {r \in BagToSet(rs) : r.user_id = uid /\ r.rating = v
                    /\ r.song_id \in SongIds(ss, h)}
    IN  BagCardinality([r \in rows |-> CopiesIn(r, rs)])

\* C4: the aggregate a submission answers is the aggregate of the store
\* right after its own upsert: between the commit of slot p and its answer
\* no step changes the aggregate of its song, and a 200 answer counts its
\* user on the side of the submitted value.
C4_AggregateOfOwnUpsert ==
    [][\A p \in Procs : pc[p] = "updatedRatings" =>
          /\ UpdatedRatingsQuery(ratings', songId[p])
                = UpdatedRatingsQuery(ratings, songId[p])
          /\ (pc'[p] = "idle" /\ sent'.status = 200) =>
                IF req[p].body.rating = Num(1)
                THEN sent'.res.thumbs_up >= 1
                ELSE sent'.res.thumbs_down >= 1]_vars

\* C5: on PostgreSQL the rating rows change only when a slot commits, and
\* the commit of a submission (h, u, v) leaves exactly one row of u on h,
\* with value v (counted once, on the side of v), and every other row as
\* it was: of two racing submissions the later commit decides the value.
C5_LastCommitWins ==
    [][/\ ratings' # ratings =>
            \E p \in Procs : pc[p] = "commit" /\ pc'[p] = "updatedRatings"
       /\ \A p \in Procs : (pc[p] = "commit" /\ pc'[p] = "updatedRatings") =>
            LET h == req[p].songHash
                u == Bind(req[p].body.userId)
                v == req[p].body.rating.val
            IN  /\ RowCount(songs', ratings', h, u) = 1
                /\ UserCountOnSide(songs', ratings', h, u, v) = 1
                /\ UserCountOnSide(songs', ratings', h, u, 0 - v) = 0
                /\ UserRatingQuery(songs', ratings', h, u) = Num(v)
                /\ \A r \in BagToSet(ratings) :
                      (r.user_id # u \/ r.song_id # songId[p]) =>
                          CopiesIn(r, ratings') = CopiesIn(r, ratings)
                /\ \A r \in BagToSet(ratings') :
                      (r.user_id # u \/ r.song_id # songId[p]) =>
                          CopiesIn(r, ratings) = CopiesIn(r, ratings')]_vars

\* Two submissions of one user for one song with different values race:
\* p1 has written the row and not committed, p2 waits to write it.
C5_Witness ==
    /\ pc["p1"] = "commit"
    /\ pc["p2"] = "insertRating"
    /\ req["p1"].songHash = req["p2"].songHash
    /\ req["p1"].body.userId = req["p2"].body.userId
    /\ req["p1"].body.rating # req["p2"].body.rating
    /\ songId["p1"] = songId["p2"]

\* C6: in every committed state of the PostgreSQL store each song row has
\* at least one rating row.
C6_SongHasRating ==
    \A s \in songs : \E r \in BagToSet(ratings) : r.song_id = s.id

\* A submission has just committed the song row of the unseen h2 and has
\* not answered yet.
C6_Witness ==
    /\ \E p \in Procs : pc[p] = "updatedRatings" /\ req[p].songHash = "h2"
    /\ SongsByHash(songs, "h2") # {}
    /\ BagCardinality(ratings) = 1

\* C7: a submission answered 500 by the SQLite server leaves the store as
\* it was before the request, whichever storage call failed.
C7_ErrorLeavesNothing ==
    [][(sent'.op = "rate" /\ sent'.status = 500) =>
          (songs' = songs /\ ratings' = ratings)]_vars

\* The rating of the body is the number 1 or the number -1.
RatingIsValid(body) ==
    StrictEqNum(body.rating, 1) \/ StrictEqNum(body.rating, -1)

\* userId, title and artist of the body are present and not empty.
FieldsPresent(body) ==
    ~Falsy(body.userId) /\ ~Falsy(body.title) /\ ~Falsy(body.artist)

\* C8: a submission whose rating is neither 1 nor -1 (0 and 2 among them),
\* with userId, title and artist present, is answered 400 'Rating must be 1
\* (thumbs up) or -1 (thumbs down)' and the store is unchanged.
C8_InvalidRatingMessage ==
    [][(sent'.op = "rate" /\ ~RatingIsValid(sent'.body)
            /\ FieldsPresent(sent'.body)) =>
          /\ sent'.status = 400
          /\ sent'.res.error = InvalidRating
          /\ songs' = songs
          /\ ratings' = ratings]_vars

\* C9: a submission with a valid rating whose userId, title or artist is
\* missing or empty is answered 400 'Missing required fields' with no
\* storage call made (store and fault count unchanged); one that omits only
\* album is not rejected: it is answered 200 unless a storage call fails.
C9_MissingFields ==
    [][(sent'.op = "rate" /\ RatingIsValid(sent'.body)) =>
          /\ ~FieldsPresent(sent'.body) =>
                /\ sent'.status = 400
                /\ sent'.res.error = MissingFields
                /\ UNCHANGED <<songs, ratings, faults, submits>>
          /\ FieldsPresent(sent'.body) =>
                /\ sent'.status \in {200, 500}
                /\ sent'.status = 500 => faults' = faults + 1
                /\ sent'.status = 200 =>
                      \E s \in SongsByHash(songs', sent'.songHash) :
                          \E r \in BagToSet(ratings') : r.song_id = s.id]_vars

\* A submission without title, its rating valid, was answered 400 while the
\* store holds rows.
C9_Witness ==
    /\ sent.op = "rate"
    /\ sent.status = 400
    /\ sent.res.error = MissingFields
    /\ StrictEqNum(sent.body.rating, 1)
    /\ sent.body.title = Undefined
    /\ ~Falsy(sent.body.userId)
    /\ ~Falsy(sent.body.artist)
    /\ songs # {}

\* The number of rating rows with value v on the songs of songHash h.
CountRows(ss, rs, h, v) ==
    LET rows == {r \in BagToSet(rs) :
                    r.rating = v /\ r.song_id \in SongIds(ss, h)}
    IN  BagCardinality([r \in rows |-> CopiesIn(r, rs)])

\* C10: on the SQLite server the thumbs_up and thumbs_down answered by GET
\* /api/song/:songHash/ratings, and by a submission answered 200, are the
\* numbers of rating rows of the song with value 1 and with value -1.
C10_CountsAreRowCounts ==
    /\ \A h \in SongHashes :
          GetRatingsBody(h) =
              [thumbs_up |-> CountRows(songs, ratings, h, 1),
               thumbs_down |-> CountRows(songs, ratings, h, -1)]
    /\ (sent.op = "ratings" /\ sent.status = 200) =>
          /\ sent.thumbs_up = CountRows(songs, ratings, sent.songHash, 1)
          /\ sent.thumbs_down = CountRows(songs, ratings, sent.songHash, -1)
    /\ RateOk =>
          /\ sent.res.thumbs_up = CountRows(songs, ratings, sent.songHash, 1)
          /\ sent.res.thumbs_down
                = CountRows(songs, ratings, sent.songHash, -1)

\* GET /api/song/h1/ratings answered one thumb up and one thumb down.
C10_Witness ==
    /\ sent.op = "ratings"
    /\ sent.status = 200
    /\ sent.songHash = "h1"
    /\ sent.thumbs_up = 1
    /\ sent.thumbs_down = 1

\* The number of users whose most recent submission for songHash h is v.
UsersOnSide(h, v) == Cardinality({u \in Users : latest[h][u] = v})

\* C11: in a sequence of valid submissions served one at a time by the
\* SQLite server from an empty store, the aggregate each submission returns
\* is (users whose most recent submission for the song is +1, users whose
\* most recent submission for it is -1).
C11_AggregateOfLatest ==
    RateOk =>
        /\ sent.res.thumbs_up = UsersOnSide(sent.songHash, 1)
        /\ sent.res.thumbs_down = UsersOnSide(sent.songHash, -1)

\* The third submission for h1, u1 with -1 after u2's -1, returned {0, 2}.
C11_Witness ==
    /\ RateOk
    /\ submits = 3
    /\ sent.songHash = "h1"
    /\ sent.body.userId = Str("u1")
    /\ sent.body.rating = Num(-1)
    /\ latest["h1"] = [u \in Users |-> -1]
    /\ latest["h2"] = [u \in Users |-> 0]
    /\ sent.res.thumbs_up = 0
    /\ sent.res.thumbs_down = 2

\* C12: a submission (h, u, v) answered 200 while u's stored rating of h
\* is already v (the state a first submission of v leaves) changes neither
\* songs nor ratings, so the stored value and GET .../ratings are as they
\* were, and it returns the aggregate GET .../ratings gave before it; on
\* the SQLite server and on the PostgreSQL server.
C12_Idempotent ==
    [][/\ (/\ sent'.op = "rate"
           /\ sent'.status = 200
           /\ UserRatingQuery(songs, ratings, sent'.songHash,
                  Bind(sent'.body.userId)) = sent'.body.rating) =>
            /\ songs' = songs
            /\ ratings' = ratings
            /\ RatingsBodyOf(FALSE, songs', ratings', sent'.songHash)
                  = RatingsBodyOf(FALSE, songs, ratings, sent'.songHash)
            /\ sent'.res.thumbs_up
                  = RatingsBodyOf(FALSE, songs, ratings,
                                  sent'.songHash).thumbs_up
            /\ sent'.res.thumbs_down
                  = RatingsBodyOf(FALSE, songs, ratings,
                                  sent'.songHash).thumbs_down
       /\ (/\ pgSent'.op = "rate"
           /\ pgSent'.status = 200
           /\ UserRatingQuery(pgSongs, pgRatings, pgSent'.songHash,
                  Bind(pgSent'.body.userId)) = pgSent'.body.rating) =>
            /\ pgSongs' = pgSongs
            /\ pgRatings' = pgRatings
            /\ pgSent'.res.thumbs_up
                  = RatingsBodyOf(TRUE, pgSongs, pgRatings,
                                  pgSent'.songHash).thumbs_up
            /\ pgSent'.res.thumbs_down
                  = RatingsBodyOf(TRUE, pgSongs, pgRatings,
                                  pgSent'.songHash).thumbs_down]_vars

\* The second of two submissions was answered 200 for the pair (h1, u1),
\* the only pair rated, with the value +1 it holds.
C12_Witness ==
    /\ RateOk
    /\ pgSent.status = 200
    /\ submits = 2
    /\ sent.songHash = "h1"
    /\ sent.body.userId = Str("u1")
    /\ sent.body.rating = Num(1)
    /\ sent.res.thumbs_up = 1
    /\ BagCardinality(ratings) = 1
    /\ BagCardinality(pgRatings) = 1

\* The step answers 200 to a submission of v for (h, u) on the SQLite
\* server, resp. on the PostgreSQL server.
RateStep(h, u, v) ==
    /\ sent'.op = "rate"
    /\ sent'.status = 200
    /\ sent'.songHash = h
    /\ sent'.body.userId = Str(u)
    /\ sent'.body.rating = Num(v)
PgRateStep(h, u, v) ==
    /\ pgSent'.op = "rate"
    /\ pgSent'.status = 200
    /\ pgSent'.songHash = h
    /\ pgSent'.body.userId = Str(u)
    /\ pgSent'.body.rating = Num(v)

\* C13: a submission of -1 for (h, u) answered 200 while u's stored rating
\* of h is +1 returns thumbs_up one less and thumbs_down one more than the
\* aggregate before it (than the aggregate the +1 submission returned, when
\* that was the previous request), and leaves exactly one rating row for
\* (h, u); on the SQLite server and on the PostgreSQL server.
C13_Flip ==
    [][\A h \in SongHashes, u \in Users :
        /\ (RateStep(h, u, -1)
               /\ UserRatingQuery(songs, ratings, h, u) = Num(1)) =>
            /\ sent'.res.thumbs_up
                  = RatingsBodyOf(FALSE, songs, ratings, h).thumbs_up - 1
            /\ sent'.res.thumbs_down
                  = RatingsBodyOf(FALSE, songs, ratings, h).thumbs_down + 1
            /\ RowCount(songs', ratings', h, u) = 1
            /\ UserRatingQuery(songs', ratings', h, u) = Num(-1)
            /\ (RateOk /\ sent.songHash = h /\ sent.body.userId = Str(u)
                    /\ sent.body.rating = Num(1)) =>
                  /\ sent'.res.thumbs_up = sent.res.thumbs_up - 1
                  /\ sent'.res.thumbs_down = sent.res.thumbs_down + 1
        /\ (PgRateStep(h, u, -1)
               /\ UserRatingQuery(pgSongs, pgRatings, h, u) = Num(1)) =>
            /\ pgSent'.res.thumbs_up
                  = RatingsBodyOf(TRUE, pgSongs, pgRatings, h).thumbs_up - 1
            /\ pgSent'.res.thumbs_down
                  = RatingsBodyOf(TRUE, pgSongs, pgRatings, h).thumbs_down
                    + 1
            /\ RowCount(pgSongs', pgRatings', h, u) = 1
            /\ (pgSent.op = "rate" /\ pgSent.status = 200
                    /\ pgSent.songHash = h /\ pgSent.body.userId = Str(u)
                    /\ pgSent.body.rating = Num(1)) =>
                  /\ pgSent'.res.thumbs_up = pgSent.res.thumbs_up - 1
                  /\ pgSent'.res.thumbs_down = pgSent.res.thumbs_down + 1]_vars

\* After u2 rated h1 +1, u1's second submission for h1, a -1, was answered
\* {1, 1}: u1 no longer counts up.
C13_Witness ==
    /\ RateOk
    /\ pgSent.status = 200
    /\ submits = 3
    /\ sent.songHash = "h1"
    /\ sent.body.userId = Str("u1")
    /\ sent.body.rating = Num(-1)
    /\ latest["h1"]["u2"] = 1
    /\ latest["h2"] = [u \in Users |-> 0]
    /\ sent.res.thumbs_up = 1
    /\ sent.res.thumbs_down = 1
    /\ RowCount(songs, ratings, "h1", "u1") = 1

\* C14: GET .../ratings of a songHash without a song row is answered 200
\* with {thumbs_up: 0, thumbs_down: 0}; GET .../user-rating/:userId is
\* answered {rating: null} for every userId when the songHash has no song
\* row, and when the song exists but holds no rating row of that user; on
\* the SQLite server and on the PostgreSQL server.
C14_UnknownSong ==
    /\ (sent.op = "ratings" /\ SongsByHash(songs, sent.songHash) = {}) =>
          /\ sent.status = 200
          /\ sent.thumbs_up = 0
          /\ sent.thumbs_down = 0
    /\ (pgSent.op = "ratings" /\ SongsByHash(pgSongs, pgSent.songHash) = {}) =>
          /\ pgSent.status = 200
          /\ pgSent.thumbs_up = 0
          /\ pgSent.thumbs_down = 0
    /\ (sent.op = "user-rating"
           /\ RowCount(songs, ratings, sent.songHash, sent.userId) = 0) =>
          /\ sent.status = 200
          /\ sent.rating = Null
    /\ (pgSent.op = "user-rating"
           /\ RowCount(pgSongs, pgRatings, pgSent.songHash, pgSent.userId) = 0)
          => /\ pgSent.status = 200
             /\ pgSent.rating = Null
    /\ \A h \in SongHashes, uid \in ReaderIds :
          SongsByHash(songs, h) = {} =>
              /\ RatingsBodyOf(FALSE, songs, ratings, h)
                    = [thumbs_up |-> 0, thumbs_down |-> 0]
              /\ UserRatingBodyOf(songs, ratings, h, uid) = [rating |-> Null]

\* Both users have rated h1 up; GET .../ratings of h2, which has no song
\* row, is answered 200 {0, 0} by both servers.
C14_Witness ==
    /\ sent.op = "ratings"
    /\ sent.songHash = "h2"
    /\ SongsByHash(songs, "h2") = {}
    /\ SongsByHash(pgSongs, "h2") = {}
    /\ latest["h1"] = [u \in Users |-> 1]
    /\ BagCardinality(ratings) = 2
    /\ sent.status = 200
    /\ sent.thumbs_up = 0
    /\ sent.thumbs_down = 0
    /\ pgSent = sent

\* C15: a step that answers GET .../ratings or GET .../user-rating/:userId
\* leaves the songs and ratings relations as they were, for every songHash
\* and userId, a songHash without a song row included; on the SQLite server
\* and on the PostgreSQL server.
C15_GetsReadOnly ==
    [][/\ sent'.op \in {"ratings", "user-rating"} =>
             songs' = songs /\ ratings' = ratings
       /\ pgSent'.op \in {"ratings", "user-rating"} =>
             pgSongs' = pgSongs /\ pgRatings' = pgRatings]_vars

\* After one submission for h1, GET .../ratings of h2 has been answered and
\* h2 still has no song row in either store.
C15_Witness ==
    /\ sent.op = "ratings"
    /\ pgSent.op = "ratings"
    /\ sent.songHash = "h2"
    /\ submits = 1
    /\ SongsByHash(songs, "h1") # {}
    /\ SongsByHash(songs, "h2") = {}
    /\ SongsByHash(pgSongs, "h2") = {}
    /\ BagCardinality(ratings) = 1
    /\ BagCardinality(pgRatings) = 1

\* C16: no step removes a song row or a rating: the song rows of a state
\* are song rows of the next, and a (songHash, userId) whose rating
\* GET .../user-rating would return as 1 or -1 is not returned as null after
\* the step; over submissions answered 200, rejected with 400 and failed
\* with 500, and over the GETs.
C16_NothingRemoved ==
    [][/\ songs \subseteq songs'
       /\ \A h \in SongHashes, uid \in ReaderIds :
             GetUserRatingBody(h, uid).rating \in {Num(1), Num(-1)} =>
                 UserRatingBodyOf(songs', ratings', h, uid).rating
                     \in {Num(1), Num(-1)}]_vars

\* u1's rating of h1 is +1 and u1's submission of -1 for h1 has just failed
\* with 500 inside the transaction: the +1 is still returned.
C16_Witness ==
    /\ sent.op = "rate"
    /\ sent.status = 500
    /\ sent.songHash = "h1"
    /\ sent.body.userId = Str("u1")
    /\ sent.body.rating = Num(-1)
    /\ submits = 2
    /\ GetUserRatingBody("h1", "u1").rating = Num(1)
    /\ Cardinality(songs) = 1

\* C17: a submission for a songHash that has a song row leaves the song
\* rows as they are, whatever title, artist and album it carries, and when
\* it is answered 200 the user's rating row carries the id of that song
\* row; a submission answered 200 for a songHash without a song row adds
\* one song row, holding the submitted track under a fresh id, and attaches
\* the rating to it.
C17_EnsureSong ==
    [][\A h \in SongHashes :
          (sent'.op = "rate" /\ sent'.songHash = h
              /\ sent'.status # 400) =>
          LET uid == Bind(sent'.body.userId)
              val == sent'.body.rating.val
              Attached(s) == [song_id |-> s.id, user_id |-> uid,
                              rating |-> val] \in BagToSet(ratings')
          IN  /\ SongsByHash(songs, h) # {} =>
                    /\ songs' = songs
                    /\ sent'.status = 200 =>
                          \A s \in SongsByHash(songs, h) : Attached(s)
              /\ (SongsByHash(songs, h) = {} /\ sent'.status = 200) =>
                    \E s \in songs' :
                       /\ s \notin songs
                       /\ songs' = songs \cup {s}
                       /\ s.id \notin {x.id : x \in songs}
                       /\ s = SongRow(s.id, Bind(sent'.body.title),
                                      Bind(sent'.body.artist),
                                      Bind(sent'.body.album), h)
                       /\ Attached(s)]_vars

\* h1 was stored as track T with album B; a submission for h1 carrying
\* title T2 and no album has been answered 200, and the one song row of h1
\* is still T with album B.
C17_Witness ==
    /\ RateOk
    /\ sent.songHash = "h1"
    /\ sent.body.title = Str("T2")
    /\ sent.body.album = Undefined
    /\ sent.body.userId = Str("u2")
    /\ submits = 2
    /\ songs = {SongRow(1, "T", "A", "B", "h1")}
    /\ BagToSet(ratings) = {[song_id |-> 1, user_id |-> "u1", rating |-> 1],
                            [song_id |-> 1, user_id |-> "u2", rating |-> -1]}

\* C18: in every reachable state of the PostgreSQL store two song rows with
\* one song_hash are the same row, among the committed rows and the rows
\* open transactions have inserted alike, under every interleaving of the
\* submissions of the two slots.
C18_OneSongPerHash ==
    \A s1, s2 \in songs \cup AllTxSongs :
        s1.song_hash = s2.song_hash => s1 = s2

\* p1 has inserted the row of the unseen h2 and has not committed; p2, with
\* a submission for h2 too, is at its INSERT INTO songs.
C18_Witness ==
    /\ \E s \in txSongs["p1"] : s.song_hash = "h2"
    /\ pc["p1"] = "insertRating"
    /\ pc["p2"] = "insertSong"
    /\ req["p2"].songHash = "h2"
    /\ SongsByHash(songs, "h2") = {}
    /\ faults = 0

\* C19: in every reachable state every rating row holds 1 or -1, whatever
\* bodies were submitted (valid, with a rating of 0 or 2, without a rating,
\* without a mandatory field); a user who has not rated a song has no row
\* for it.
C19_RatingValues ==
    /\ \A r \in BagToSet(ratings) \cup BagToSet(pgRatings) :
          r.rating \in {1, -1}
    /\ \A h \in SongHashes, uid \in ReaderIds :
          GetUserRatingBody(h, uid).rating \in {Null, Num(1), Num(-1)}
    /\ \A h \in SongHashes, uid \in ReaderIds :
          GetUserRatingBody(h, uid).rating = Null
              <=> RowCount(songs, ratings, h, uid) = 0

\* A submission of rating 0 has been answered 400 while both users' ratings
\* of h1 are stored: the rows still hold 1 and -1.
C19_Witness ==
    /\ sent.op = "rate"
    /\ sent.status = 400
    /\ sent.body.rating = Num(0)
    /\ sent.body.title = Str("T")
    /\ BagToSet(ratings) = {[song_id |-> 1, user_id |-> "u1", rating |-> 1],
                            [song_id |-> 1, user_id |-> "u2", rating |-> -1]}
    /\ BagCardinality(ratings) = 2

\* C20: served the same requests one at a time from empty stores, the
\* SQLite server and the PostgreSQL server answer every request with the
\* same status code and the same thumbs_up, thumbs_down and rating values.
C20_BackendsAgree ==
    /\ sent.op = pgSent.op
    /\ sent.status = pgSent.status
    /\ (sent.op = "rate" /\ sent.status = 200) =>
          /\ sent.res.thumbs_up = pgSent.res.thumbs_up
          /\ sent.res.thumbs_down = pgSent.res.thumbs_down
    /\ (sent.op = "ratings" /\ sent.status = 200) =>
          /\ sent.thumbs_up = pgSent.thumbs_up
          /\ sent.thumbs_down = pgSent.thumbs_down
    /\ (sent.op = "user-rating" /\ sent.status = 200) =>
          sent.rating = pgSent.rating

\* C21: initializeSchema creates users, then songs, then ratings: in every
\* state a CREATE TABLE statement that has been started finds the statements
\* of the tables before it completed; ratings is not started before songs
\* is done.
C21_DependencyOrder ==
    \A t, u \in TableSet :
        (TableIndex(u) < TableIndex(t) /\ stmt[t] # "idle") =>
            stmt[u] = "done"

\* A CREATE TABLE statement of initializeSchema settles in this step.
Settles(t) ==
    stmt[t] \notin {"done", "failed"} /\ stmt'[t] \in {"done", "failed"}

\* C22: initializeSchema is idempotent: a statement that finds its table
\* leaves every table definition and every song and rating row as they are
\* and succeeds unless the storage call itself failed; on a store that has
\* the three tables the process does not exit unless a storage call failed.
C22_Idempotent ==
    [][/\ \A t \in TableSet :
             (Settles(t) /\ tables[t] # Absent) =>
                 /\ tables' = tables
                 /\ songs' = songs
                 /\ ratings' = ratings
                 /\ faults' = faults => stmt'[t] = "done"
       /\ ((\A t \in TableSet : tables[t] # Absent) /\ faults' = 0) =>
             proc' # "exited"]_vars

\* The PostgreSQL server has started on the tables of init.sql that hold a
\* rated song: the three statements are done, the definitions are those of
\* init.sql and the rows are there.
C22_Witness ==
    /\ dbType = "postgres"
    /\ SchemaInitialized
    /\ proc = "listening"
    /\ served = 0
    /\ faults = 0
    /\ tables = [t \in TableSet |-> InitSqlDef(t)]
    /\ songs = PersistedSongs
    /\ ratings = PersistedRatings

Answered(p, status) ==
    pc[p] # "idle" /\ pc'[p] = "idle" /\ sent'.status = status

\* C24: on PostgreSQL a submission is answered 200 only after its
\* transaction committed: the answering slot has passed COMMIT, holds no
\* uncommitted write, and its commit put the rating row of its (song of
\* songHash, userId) into the store; a rating row of a pair, once there,
\* stays; and a slot on its way through ROLLBACK is answered 500.
C24_OkMeansCommitted ==
    [][\A p \in Procs :
          LET h == req[p].songHash
              uid == Bind(req[p].body.userId)
          IN  /\ Answered(p, 200) =>
                    /\ pc[p] = "updatedRatings"
                    /\ txSongs[p] = {} /\ txRatings[p] = {}
                    /\ RowCount(songs', ratings', h, uid) >= 1
              /\ (pc[p] # "updatedRatings" /\ pc'[p] = "updatedRatings") =>
                    /\ pc[p] = "commit"
                    /\ \E s \in SongsByHash(songs', h) :
                          /\ s.id = songId[p]
                          /\ [song_id |-> s.id, user_id |-> uid,
                              rating |-> req[p].body.rating.val]
                                \in BagToSet(ratings')
              /\ pc[p] = "rollback" =>
                    /\ pc'[p] \in {"rollback", "idle"}
                    /\ pc'[p] = "idle" => sent'.status = 500
              /\ \A g \in SongHashes, u \in Users :
                    RowCount(songs, ratings, g, u) >= 1 =>
                        RowCount(songs', ratings', g, u) >= 1]_vars

\* From an empty store one submission failed inside its transaction and was
\* rolled back, the other, for h2, is answered 200: its row is the only
\* rating row.
C24_Witness ==
    /\ RateOk
    /\ sent.songHash = "h2"
    /\ faults = 1
    /\ submits = 2
    /\ \A p \in Procs : pc[p] = "idle"
    /\ RowCount(songs, ratings, "h2", Bind(sent.body.userId)) = 1
    /\ BagCardinality(ratings) = 1
    /\ Cardinality(songs) = 1

\* Slot p's rate request, resp. reader r's GET, is answered in this step.
Finishes(p) == pc[p] # "idle" /\ pc'[p] = "idle"
ReaderFinishes(r) == rd[r] # NoGet /\ rd'[r] = NoGet

\* C25: on the PostgreSQL server, with fewer pool clients than concurrent
\* requests, every rate request and every GET that has been accepted is
\* eventually answered (the handlers' continuations run, every storage call
\* returns or fails): no handler stays away from its idle state forever,
\* which is (pc[p] # "idle") ~> (pc[p] = "idle") for every slot.  And it is
\* answered once: a response is sent exactly in the steps in which one
\* request ends.
C25_EveryRequestAnswered ==
    /\ \A p \in Procs : []<>(pc[p] = "idle")
    /\ \A r \in Readers : []<>(rd[r] = NoGet)
    /\ [][(sent' # NoResp) <=>
             Cardinality({p \in Procs : Finishes(p)})
                 + Cardinality({r \in Readers : ReaderFinishes(r)}) = 1]_vars
    /\ [][\A p \in Procs : Finishes(p) =>
             /\ sent'.op = "rate"
             /\ sent'.songHash = req[p].songHash
             /\ sent'.body = req[p].body
             /\ sent'.status \in {200, 500}]_vars

\* p1 holds the only client of the pool inside its transaction while p2's
\* rate request waits in pool.connect() and r1's GET waits in pool.query.
C25_Witness ==
    /\ PoolBusy = PoolMax
    /\ pc["p1"] = "insertRating"
    /\ pc["p2"] = "connect"
    /\ rd["r1"] # NoGet
    /\ faults = 0

\* The track is an object whose artist and title are non-empty strings.
HasArtistAndTitle(track) ==
    /\ track.type = "object"
    /\ \A k \in {"artist", "title"} :
          Prop(track, k).type = "string" /\ Len(Prop(track, k).val) > 0

\* album-or-empty: the album if the track has one, else the empty text.
AlbumOrEmpty(track) ==
    IF Prop(track, "album").type = "string" THEN Prop(track, "album").val
    ELSE <<>>

\* The track with the case of every letter of its texts swapped.
SwapCase(cs) ==
    [i \in 1..Len(cs) |->
        CASE cs[i] = "A" -> "a" [] cs[i] = "a" -> "A" [] OTHER -> cs[i]]
CaseVariant(track) ==
    Obj([k \in DOMAIN track.val |->
            IF track.val[k].type = "string"
            THEN Text(SwapCase(track.val[k].val))
            ELSE track.val[k]])

\* The track with its album property set to v, and without the property.
WithAlbum(track, v) ==
    Obj([k \in DOMAIN track.val \cup {"album"} |->
            IF k = "album" THEN v ELSE track.val[k]])
WithoutAlbum(track) ==
    Obj([k \in DOMAIN track.val \ {"album"} |-> track.val[k]])

\* C26: for a track with an artist and a title, getSongHash of the shared
\* utility returns hashString of the lowercased text artist_title_album,
\* the album taken as empty when the track has none; the track with the
\* case of its letters swapped hashes to the same value, and so do the
\* track without album, with album undefined and with album ''.
C26_SongHash ==
    (/\ call.fn = "getSongHash"
     /\ util # NotCalled
     /\ HasArtistAndTitle(call.arg))
    => /\ util.kind = "return"
       /\ util = hashString(Text(ToLowerCase(
                    Prop(call.arg, "artist").val \o <<"_">>
                    \o Prop(call.arg, "title").val \o <<"_">>
                    \o AlbumOrEmpty(call.arg))))
       /\ getSongHash(CaseVariant(call.arg)) = util
       /\ AlbumOrEmpty(call.arg) = <<>> =>
             /\ getSongHash(WithoutAlbum(call.arg)) = util
             /\ getSongHash(WithAlbum(call.arg, Undefined)) = util
             /\ getSongHash(WithAlbum(call.arg, Text(<<>>))) = util

\* A track in mixed case and without album has been hashed; its text is
\* long enough for the hash to leave 32 bits.
C26_Witness ==
    /\ call.fn = "getSongHash"
    /\ util.kind = "return"
    /\ call.arg.type = "object"
    /\ DOMAIN call.arg.val = {"artist", "title"}
    /\ call.arg.val["artist"] = Text(<<"A", "b">>)
    /\ call.arg.val["title"] = Text(<<"b", "A">>)

\* C27: hashString of the shared utility returns a string (a non-empty
\* text of base-36 digits) for every string, the empty one included, and
\* throws, returning nothing, for every value that is not a string.
C27_HashStringTotal ==
    (call.fn = "hashString" /\ util # NotCalled)
    => IF call.arg.type = "string"
       THEN /\ util.kind = "return"
            /\ Len(util.val) > 0
            /\ \A i \in 1..Len(util.val) :
                  \E d \in 1..Len(Digits36) : util.val[i] = Digits36[d]
       ELSE util.kind = "throw"

\* hashString has been called with a number.
C27_Witness ==
    /\ call.fn = "hashString"
    /\ call.arg.type = "number"
    /\ util.kind = "throw"

\* C28: the client and the shared utility do the same on every track
\* object (getSongHash) and on every string (hashString).
C28_ClientAgrees ==
    (util # NotCalled /\ client # NotCalled)
    => /\ (call.fn = "getSongHash" /\ call.arg.type = "object")
              => client = util
       /\ (call.fn = "hashString" /\ call.arg.type = "string")
              => client = util

\* C29: a rate request for song h by user u, whatever its answer (200, 400
\* or 500), leaves the stored rating of every other pair (h2, u2) and the
\* aggregate of every other song as they were, on the SQLite server and on
\* the PostgreSQL server; so does the step of a PostgreSQL transaction
\* that ends its commit, among overlapping transactions.
C29_PairsIndependent ==
    [][/\ sent'.op = "rate" =>
            /\ \A h2 \in SongHashes, u2 \in Users :
                  (h2 # sent'.songHash \/ Str(u2) # sent'.body.userId) =>
                      UserRatingQuery(songs', ratings', h2, u2)
                          = UserRatingQuery(songs, ratings, h2, u2)
            /\ \A h2 \in SongHashes \ {sent'.songHash} :
                  RatingsBodyOf(FALSE, songs', ratings', h2)
                      = RatingsBodyOf(FALSE, songs, ratings, h2)
       /\ pgSent'.op = "rate" =>
            /\ \A h2 \in SongHashes, u2 \in Users :
                  (h2 # pgSent'.songHash \/ Str(u2) # pgSent'.body.userId)
                  => UserRatingQuery(pgSongs', pgRatings', h2, u2)
                         = UserRatingQuery(pgSongs, pgRatings, h2, u2)
            /\ \A h2 \in SongHashes \ {pgSent'.songHash} :
                  RatingsBodyOf(TRUE, pgSongs', pgRatings', h2)
                      = RatingsBodyOf(TRUE, pgSongs, pgRatings, h2)
       /\ \A p \in Procs : (pc[p] = "commit" /\ pc'[p] # "commit") =>
            /\ \A h2 \in SongHashes, u2 \in Users :
                  (h2 # req[p].songHash \/ Str(u2) # req[p].body.userId)
                  => UserRatingQuery(songs', ratings', h2, u2)
                         = UserRatingQuery(songs, ratings, h2, u2)
            /\ \A h2 \in SongHashes \ {req[p].songHash} :
                  RatingsBodyOf(TRUE, songs', ratings', h2)
                      = RatingsBodyOf(TRUE, songs, ratings, h2)]_vars

\* u1's rating of h1 was stored on both servers while u2 had rated h1 and
\* h2 had a rating.
C29_Witness ==
    /\ sent.op = "rate" /\ sent.status = 200 /\ pgSent.status = 200
    /\ sent.songHash = "h1"
    /\ sent.body.userId = Str("u1")
    /\ UserRatingQuery(songs, ratings, "h1", "u2") = Num(1)
    /\ UserRatingQuery(pgSongs, pgRatings, "h1", "u2") = Num(1)
    /\ RatingsBodyOf(FALSE, songs, ratings, "h2").thumbs_up > 0
    /\ RatingsBodyOf(TRUE, pgSongs, pgRatings, "h2").thumbs_up > 0

\* C30: a call of rateSong (a click on a button that has a listener) while
\* currentTrack is unset (undefined or null) or userId is unset sends no
\* request and leaves the displayed counts and the active button as they
\* are.
C30_NoRateWithoutTrackOrUser ==
    [][(/\ clicks' = clicks + 1
        /\ listeners > 0
        /\ \/ currentTrack \in {Undefined, Null}
           \/ userId = Undefined)
       => /\ inflight' = inflight
          /\ thumbsUpCount' = thumbsUpCount
          /\ thumbsDownCount' = thumbsDownCount
          /\ active' = active]_vars

\* A track is playing and a button was clicked before getUserId resolved:
\* nothing was sent.
C30_Witness ==
    /\ clicks > 0
    /\ listeners > 0
    /\ refreshes = 1
    /\ currentTrack \in WidgetTracks
    /\ userId = Undefined
    /\ inflight = {}

\* C40: in every reachable state of the store, every row of ratings has
\* the id of a row of songs as its song_id; among overlapping transactions
\* of the PostgreSQL server, those that fail and roll back included.
C40_ReferentialIntegrity ==
    \A r \in BagToSet(ratings) : \E s \in songs : s.id = r.song_id

\* Ratings of two songs are stored after a transaction has failed and
\* rolled back.
C40_Witness ==
    /\ faults > 0
    /\ Cardinality({r.song_id : r \in BagToSet(ratings)}) = 2
    /\ \A p \in Procs : pc[p] = "idle"

\* C35: in the PostgreSQL deployment a rate request runs on the store only
\* once initializeSchema has resolved: every CREATE TABLE statement of it
\* is done in the state in which a request is served.
C35_ServesAfterInit ==
    [][(dbType = "postgres" /\ served' = served + 1)
       => \A t \in TableSet : stmt[t] = "done"]_vars

\* C36: every pool client a submitRating request acquires is released
\* exactly once on every path (COMMIT, a failed BEGIN or statement followed
\* by ROLLBACK, a failed ROLLBACK): a slot holds one client exactly while
\* its handler is between pool.connect() and the end of its transaction,
\* and none before or after; every step of the transaction is taken with
\* the client held; a release gives back the one client held; the clients
\* held never outnumber the submissions in flight.
C36_ClientReleasedOnce ==
    /\ [](\A p \in Procs :
            held[p] = (IF pc[p] \in ClientStates THEN 1 ELSE 0))
    /\ [](Cardinality({p \in Procs : held[p] > 0})
            <= Cardinality({p \in Procs : pc[p] # "idle"}))
    /\ [][\A p \in Procs :
            /\ (pc[p] \in ClientStates /\ pc'[p] # pc[p]) => held[p] = 1
            /\ held'[p] # held[p] =>
                  \/ pc[p] = "connect" /\ held[p] = 0 /\ held'[p] = 1
                  \/ pc[p] \in ClientStates /\ held[p] = 1 /\ held'[p] = 0
                     /\ pc'[p] \notin ClientStates]_vars

\* A failed statement was rolled back and its client given back while the
\* other slot still holds its own client.
C36_Witness ==
    /\ faults > 0
    /\ \E p, q \in Procs :
          /\ pc[p] = "idle" /\ held[p] = 0 /\ submits > 1
          /\ pc[q] = "commit" /\ held[q] = 1

\* C32: togglePlay alternates the player state. When audio.play() resolves,
\* the call ends with isPlaying true and a live interval in elapsedTimer;
\* a call that finds the player playing ends with isPlaying false,
\* elapsedTimer null, its interval cleared and the display '00:00:00';
\* when audio.play() rejects, isPlaying is left as it is (false, unless
\* another call set it meanwhile), no interval is made and the status line
\* reads 'Playback failed - check connection'.
C32_TogglePlayAlternates ==
    [][/\ (awaiting' < awaiting /\ ended' = "played") =>
            /\ isPlaying'
            /\ elapsedTimer' \in timers' \ timers
       /\ (toggles' > toggles /\ isPlaying) =>
            /\ ~isPlaying'
            /\ elapsedTimer' = 0
            /\ elapsedTimer \notin timers'
            /\ timeDisplay' = "00:00:00"
            /\ awaiting' = awaiting
       /\ (toggles' > toggles /\ ~isPlaying) =>
            /\ awaiting' = awaiting + 1
            /\ UNCHANGED <<isPlaying, timers, elapsedTimer, timeDisplay>>
       /\ (awaiting' < awaiting /\ ended' = "failed") =>
            /\ isPlaying' = isPlaying
            /\ (awaiting = 1 /\ timerSeq = 0 => ~isPlaying')
            /\ timers' = timers
            /\ timerSeq' = timerSeq
            /\ statusText' = PlaybackFailed]_vars

\* Played, paused a second or more later, and a further play rejected.
C32_Witness ==
    /\ ended = "failed"
    /\ statusText = PlaybackFailed
    /\ timerSeq = 1
    /\ timers = {}
    /\ ~isPlaying
    /\ timeDisplay = "00:00:00"
    /\ now > startTime

\* C38: at most one elapsed-time interval is live at any time, and one is
\* live only while isPlaying is true, also when togglePlay is invoked again
\* while an earlier call awaits audio.play().
C38_OneTimerWhilePlaying ==
    /\ Cardinality(timers) <= 1
    /\ timers # {} => isPlaying

\* C33: the client identifier is stable. A call of getUserId that finds in
\* localStorage a user id and a fingerprint equal to the fresh one returns
\* the stored id and writes nothing; and every call leaves in localStorage
\* the id it returned and the fingerprint it computed, so that a repeated
\* call from the same client meets that case and returns the same id.
C33_UserIdStable ==
    [][loads' > loads =>
         /\ (/\ ~FalsyText(lsUserId)
             /\ lsFingerprint = GenerateFingerprint(env)) =>
                /\ gotUserId' = lsUserId
                /\ written' = {}
                /\ UNCHANGED <<lsUserId, lsFingerprint, ssBackup>>
         /\ lsUserId' = gotUserId'
         /\ lsFingerprint' = GenerateFingerprint(env)
         /\ ~FalsyText(gotUserId')]_vars

\* A later load returned, unwritten, the id the first second's load made.
C33_Witness ==
    /\ loads > 1
    /\ now = MaxNow
    /\ written = {}
    /\ gotUserId = NewUserId(GenerateFingerprint(env), 1)
    /\ lsUserId = gotUserId

\* C34: when localStorage has no radioCalico_userId but sessionStorage
\* holds radioCalico_userId_backup, getUserId returns the backup id and
\* writes it back to localStorage instead of making a new id.
C34_SessionFallback ==
    [][(loads' > loads /\ lsUserId = Null /\ ~FalsyText(ssBackup)) =>
          /\ gotUserId' = ssBackup
          /\ lsUserId' = ssBackup]_vars

\* C31: when a rateSong(r) completes with an ok response, the displayed
\* counts are the thumbs_up and thumbs_down of that response and exactly
\* the button of r is active; when the response was not ok or the request
\* threw, the displayed counts and the active button are as before.
C31_RateSongCompletion ==
    [][\A f \in inflight \ inflight' :
         /\ completed'.kind \in {"ok", "not ok", "threw"}
         /\ completed'.kind = "ok" =>
              /\ [req |-> f, res |-> completed'.res] \in answers
              /\ completed'.res.status = 200
              /\ thumbsUpCount' = TextContent(completed'.res.thumbs_up)
              /\ thumbsDownCount' = TextContent(completed'.res.thumbs_down)
              /\ active' = f.body.rating.val
              /\ active' \in {1, -1}
         /\ completed'.kind = "not ok" =>
              /\ [req |-> f, res |-> completed'.res] \in answers
              /\ completed'.res.status # 200
              /\ UNCHANGED shown
         /\ completed'.kind = "threw" => UNCHANGED shown]_vars

\* A thumbs down was answered ok and is shown, with the count of the
\* response, after a request that failed left the page as it was.
C31_Witness ==
    /\ completed.kind = "ok"
    /\ active = -1
    /\ thumbsDownCount = "1"
    /\ thumbsUpCount = "0"
    /\ faults > 0
    /\ inflight = {}

\* C37: a single click on a rating button (with a track and a user id set,
\* and the buttons set up) results in exactly one POST .../rate request,
\* however many metadata refreshes came before the click.
C37_OneRequestPerClick ==
    [][(/\ clicks' = clicks + 1
        /\ listeners > 0
        /\ ~Falsy(currentTrack)
        /\ ~Falsy(userId))
       => Cardinality(inflight' \ inflight) = 1]_vars

\* The counts and the active button the server's store gives the page for
\* the current track and user.
ServerShown ==
    LET h == JoinChars(RadioPlayer_getSongHash(currentTrack).val)
        body == RatingsBodyOf(FALSE, songs, ratings, h)
    IN  <<TextContent(body.thumbs_up), TextContent(body.thumbs_down),
          UpdateRatingButtons(
              UserRatingBodyOf(songs, ratings, h, Bind(userId)).rating)>>

\* C39: once every rateSong request of the page has completed (and no
\* loadRatings or timeout of updateNowPlaying is pending), the active
\* button and the counts shown are those of the server's store for the
\* current song and user.
C39_ShownMatchesServer ==
    (/\ inflight = {}
     /\ loading = {}
     /\ setups = 0
     /\ completed.kind # "none"
     /\ ~Falsy(currentTrack)
     /\ ~Falsy(userId))
    => shown = ServerShown

====
